---- MODULE Spec2Model ----
(***************************************************************************)
(* A model of aiodbus (a fork of python-sdbus): the client and service     *)
(* sides of method calls and property access over one bus connection       *)
(* (bus/sdbus.py), the method-error registry (exceptions.py) and signal    *)
(* subscriptions (member/signal.py).  The native transport (_sdbus and     *)
(* libsystemd underneath it) is not part of the Python sources; its        *)
(* pending-call table, match rules and teardown are modelled after the     *)
(* transport description and marked as such.                               *)
(***************************************************************************)
EXTENDS Integers, Sequences, FiniteSets, TLC

\* ------------------------------------------------------------------ bounds

\* Calls a proxy issues in a run of SpecConn, where they are outstanding
\* together.
MaxCalls == 2
\* Calls a proxy issues in a run of SpecCall, where each is followed from the
\* handler to the caller.
MaxHandledCalls == 1
\* Subscribers (catch() generators) and signals emitted in a run of SpecSignal.
MaxSubs == 2
MaxSignals == 3
\* Callback subscriptions and signal messages arriving in a run of SpecMatch.
MaxMatchSubs == 1
MaxArrivals == 2
\* Interface classes defined in a run of SpecClass.
MaxClasses == 3

\* ------------------------------------------------------------- exceptions

\* Python's None, for optional strings.
None == "<None>"

FailedName == "org.freedesktop.DBus.Error.Failed"
DisconnectedName == "org.freedesktop.DBus.Error.Disconnected"
DeriveMethodErrorName == "org.example.Method.Error"
\* A name no class registers.
UnmappedName == "org.example.Unmapped"

ErrorNames == {FailedName, DisconnectedName, DeriveMethodErrorName, UnmappedName}

\* Messages an error carries (error_message); None when the raiser gave none.
ErrorMessages == {None, "boom"}

\* The names handlers give the base class, and the subclasses they raise.
RaisedNames == {FailedName, DeriveMethodErrorName, UnmappedName}
RaisedClasses == {"DbusFailedError", "DbusDeriveMethodError"}

\* class DbusMethodError(DbusError)
MethodCallError == "DbusMethodError"
\* class DbusFailedError(DbusMethodError, name=...Failed)
CallFailedError == "DbusFailedError"
DbusDisconnectedError == "DbusDisconnectedError"
\* tests: class DbusDeriveMethodError(MethodCallError, name="org.example.Method.Error")
DbusDeriveMethodError == "DbusDeriveMethodError"
\* tests: class IndependentError(Exception)
IndependentError == "IndependentError"
\* builtin TypeError, raised by append_data on a value that does not fit
TypeError == "TypeError"
DbusError == "DbusError"
\* _sdbus.SdBusError: the native layer's own failure
SdBusError == "SdBusError"

\* The classes that are DbusMethodError or derive from it.
MethodErrorClasses ==
    {MethodCallError, CallFailedError, DbusDisconnectedError, DbusDeriveMethodError}

\* The error_name class attribute __init_subclass__ sets; the base has none.
ClassErrorName(cls) ==
    CASE cls = CallFailedError -> FailedName
      [] cls = DbusDisconnectedError -> DisconnectedName
      [] cls = DbusDeriveMethodError -> DeriveMethodErrorName
      [] OTHER -> None

\* The subclasses exceptions.py itself defines, registered at import.
BuiltinSubclasses ==
    (FailedName :> CallFailedError) @@ (DisconnectedName :> DbusDisconnectedError)

NoExc == [cls |-> None, error_name |-> None, error_message |-> None]

\* isinstance(exc, MethodCallError)
IsMethodCallError(exc) == exc.cls \in MethodErrorClasses

\* DbusMethodError.__init__(message, name=): error_name = name or self.error_name
NewMethodError(cls, message, name) ==
    [cls |-> cls,
     error_name |-> IF name # None THEN name ELSE ClassErrorName(cls),
     error_message |-> message]

\* An exception that is no method error.
OtherException(cls) == [cls |-> cls, error_name |-> None, error_message |-> None]

\* Mutant of Create: the registry is ignored, every error is the base class.
CreateAlwaysBase(registry, name, message) ==
    NewMethodError(MethodCallError, message, name)

\* DbusMethodError.create(name, message)
Create(registry, name, message) ==
    IF name \notin DOMAIN registry
    THEN NewMethodError(MethodCallError, message, name)
    ELSE NewMethodError(registry[name], message, name)

\* ------------------------------------------------------------------ state

VARIABLES
    connState,    \* "open" | "closed": the bus connection
    nextSerial,   \* the serial the next outbound call gets
    pending,      \* the pending-call table: serial -> call id
    calls,        \* call id -> the caller's view of its call
    inbound,      \* method-call / property messages in flight to the service
    running,      \* method-call messages whose handler coroutine has started
    replies,      \* replies in flight to the caller
    subclasses,   \* DbusMethodError.subclasses: error name -> class
    lastEvent,    \* what the last step did
    attached_bus,    \* the local object's attached_bus: None until exported
    subs,            \* subscription id -> the subscriber's generator / callback
    local_callbacks, \* DbusSignal.local_callbacks: ids whose put_nowait is in the set
    slots,           \* active match slots of the connection: id -> match rule
    sigInbound,      \* signal messages in flight to the connection, oldest first
    emitted,         \* the signals emit() has emitted, oldest first
    dispatched,      \* the signal messages the connection has dispatched
    current_message, \* context -> value of the _current_message context variable
    tokens,          \* running handler -> the token its set() returned
    lastSeen,        \* what get_current_message() gave the last callback the loop ran
    classes,         \* class id -> an interface class that has been defined
    DBUS_INTERFACE_NAME_TO_CLASS, \* interface name -> class id (weak values)
    DBUS_CLASS_TO_META,           \* class id -> its DbusClassMeta (weak keys)
    lastDefine,      \* the last class statement and how it ended
    interface_properties, \* the properties of the interface being built, in order
    lastAdd,         \* the last add_property() call and how it ended
    members,         \* member id -> a DbusMember: its _name and how it got it
    lastBind,        \* the last DbusMember() or __set_name__ call and how it ended
    objects,         \* object id -> an object of the program and its _dbus meta
    lastInspect,     \* the last inspect_dbus_path() call and how it ended
    codec, \* the message being marshalled and read back: signature, arguments, bytes
    lastHandled, \* the last run of _method_handler: its inputs, append attempts and sent messages
    handle_items,  \* DbusExportHandle._items: the items not yet closed, in order of registration
    registered,  \* how many items were ever registered with the handle
    closedItems,  \* the items whose close() was called, in order of the calls
    lastClose, \* the last close() of the handle: the items before it, the items it closed
    registered_middlewares,  \* DbusMethod.to_dbus_middlewares and from_dbus_middlewares
    lastCall, \* the last call through call_with_middlewares: its chain and what ran
    signal_local_callbacks,  \* DbusSignal.local_callbacks of the one signal of the interface class
    catchers, \* catcher -> the local object it iterates the signal of, and its queue
    stored,  \* the value the property setter stored on the local object
    lastSet, \* the last set of the local property: its inputs, what ran, what it raised
    dbus_metas,  \* object -> its _dbus meta (kind "none": not created yet)
    object_manager_slot,  \* DbusObjectManagerInterface._object_manager_slot
    managed_object_to_path,  \* DbusObjectManagerInterface._managed_object_to_path (None: no entry)
    export_handles,  \* object -> the handle its export returned
    export_count,  \* object -> how many times its interfaces were exported to a bus
    announced,  \* the emit_object_added / emit_object_removed calls, in order
    lastExport  \* the last export, close or removal: the object, what it raised

callVars == <<connState, nextSerial, pending, calls, inbound, running, replies,
              subclasses>>

sigVars == <<attached_bus, subs, local_callbacks, slots, sigInbound, emitted,
             dispatched>>

msgVars == <<current_message, tokens, lastSeen>>

clsVars == <<classes, DBUS_INTERFACE_NAME_TO_CLASS, DBUS_CLASS_TO_META, lastDefine>>

propVars == <<interface_properties, lastAdd>>

\* What the connection's actions leave alone: the state of class definition
\* and of the interface builder.
memVars == <<members, lastBind>>

objVars == <<objects, lastInspect>>

declVars == <<clsVars, propVars, memVars, objVars>>

codecVars == <<codec>>

replyVars == <<lastHandled>>

handleVars == <<handle_items, registered, closedItems, lastClose>>

middlewareVars == <<registered_middlewares, lastCall>>

instanceVars == <<signal_local_callbacks, catchers>>

setterVars == <<stored, lastSet>>

managerVars == <<dbus_metas, object_manager_slot, managed_object_to_path, export_handles, export_count, announced, lastExport>>

partVars == <<codecVars, replyVars, handleVars, middlewareVars,
              instanceVars, setterVars, managerVars>>

libVars == <<declVars, partVars>>

\* What class definition leaves alone: the state of the connection.
busVars == <<callVars, lastEvent, sigVars, msgVars>>

vars == <<busVars, libVars>>

\* What class definition leaves alone, and what the interface builder does.
notClsVars == <<busVars, propVars, memVars, objVars, partVars>>
notPropVars == <<busVars, clsVars, memVars, objVars, partVars>>
notMemVars == <<busVars, clsVars, propVars, objVars, partVars>>
notObjVars == <<busVars, clsVars, propVars, memVars, partVars>>

\* What each of the further parts leaves alone.
notCodecVars == <<busVars, declVars, replyVars, handleVars, middlewareVars,
                  instanceVars, setterVars, managerVars>>
notReplyVars == <<busVars, declVars, codecVars, handleVars, middlewareVars,
                  instanceVars, setterVars, managerVars>>
notHandleVars == <<busVars, declVars, codecVars, replyVars, middlewareVars,
                   instanceVars, setterVars, managerVars>>
notMiddlewareVars == <<busVars, declVars, codecVars, replyVars, handleVars,
                       instanceVars, setterVars, managerVars>>
notInstanceVars == <<busVars, declVars, codecVars, replyVars, handleVars,
                     middlewareVars, setterVars, managerVars>>
notSetterVars == <<busVars, declVars, codecVars, replyVars, handleVars,
                   middlewareVars, instanceVars, managerVars>>
notManagerVars == <<busVars, declVars, codecVars, replyVars, handleVars,
                    middlewareVars, instanceVars, setterVars>>

CallIds == DOMAIN calls
Kinds == {"method", "get", "set"}
HelloWorld == "Hello, world!"

\* get_error() of a reply that is no error, and the reply a handler that
\* sends nothing produces.
NoError == [name |-> None, message |-> None]
NoReply == [reply_serial |-> 0, error |-> NoError, contents |-> None]

\* A call its caller has not made yet.  resolved, handled, raised and reply
\* record the call's history: how often its waiter was completed, how the
\* handler ended and with which exception, and the reply the caller got.
NewCall ==
    [state |-> "new", kind |-> "method", no_reply |-> FALSE, serial |-> 0,
     exc |-> NoExc, result |-> None, resolved |-> 0, handled |-> "none",
     raised |-> NoExc, reply |-> NoReply]

NoResult == [state |-> "none", exc |-> NoExc]
\* What the native request_name gave: an exception or the bus's reply code.
NoNative == [exc |-> NoExc, code |-> 0]
\* lastEvent: the kind of step, the serial or call it was about, and for a
\* request_name what the native request gave and how the call ended.
NoEvent == [type |-> "init", serial |-> 0, outcome |-> NoResult, native |-> NoNative]
Event(type, call, serial) ==
    [type |-> type, serial |-> serial, outcome |-> NoResult, native |-> NoNative]
\* A step the properties below do not single out.
OtherEvent == Event("other", 0, 0)

\* ------------------------------------------------------------------ signals
\* The header fields a match rule can filter on, two values each.
Senders == {"org.example.test", "org.example.other"}
Paths == {"/", "/other"}
Interfaces == {"org.example.Foo", "org.example.Bar"}
Members == {"Changed", "Other"}

SignalHeaders ==
    [sender : Senders, path : Paths, interface : Interfaces, member : Members]

\* A signal message: its header fields and its contents.
SignalMessage(sender, path, interface, member, args) ==
    [sender |-> sender, path |-> path, interface |-> interface,
     member |-> member, args |-> args]

\* next_signal_message.get_contents()
GetContents(message) == message.args

\* The filters of a subscription; None is a filter left unset.
Filters(sender, path, interface, member) ==
    [sender |-> sender, path |-> path, interface |-> interface, member |-> member]

NoFilters == Filters(None, None, None, None)

\* The exported object and its signal: the service it is reached as, the path
\* it is served on, and the interface and name of the signal.
ServiceName == "org.example.test"
ObjectPath == "/"
InterfaceName == "org.example.Foo"
SignalName == "Changed"

\* asyncio.Queue(): maxsize 0 is a queue without a limit.
QueueMaxsize == 0
Queue == << >>
QueueFull == "QueueFull"

\* A subscriber. kind: "local" (DbusLocalSignal.catch), "proxy"
\* (DbusProxySignal.catch) or "callback" (SdBus.subscribe_signals). state: "none"
\* before the generator exists, "created" before its first step, "waiting" in
\* `await queue.get()`, "yielded" at the yield, "closed" once it has finished;
\* a callback subscription is "subscribed". filters: what the subscriber asked
\* for. queue: what has been handed to it; got: what the generator has yielded.
\* since / until: how many signals had been emitted (local) or dispatched
\* (proxy, callback) when it registered and when its registration was removed.
\* removals: how often its registration has been removed.
NewSubscriber ==
    [kind |-> None, state |-> "none", filters |-> NoFilters, queue |-> Queue,
     got |-> << >>, registered |-> FALSE, since |-> 0, until |-> 0, removals |-> 0]

\* ------------------------------------------------------- interface classes
\* A class that has not been defined yet.
NoClass ==
    [state |-> "none", interface_name |-> None, bases |-> {}, namespace |-> {}]

NoDefine ==
    [result |-> "none", message |-> None, bases |-> {}, namespace |-> {},
     interface_name |-> None]

\* A name is the sequence of its characters.  An optional name, such as the
\* name argument of a member or its _name attribute, is NoName (None, or the
\* attribute not set) or Name(n).
NoName == << >>
Name(n) == <<n>>

\* Neither a DbusMember() nor a __set_name__ call yet.
NoBind ==
    [op |-> "none", result |-> None, member |-> 0, name |-> NoName,
     attr |-> << >>, owner_has_name |-> FALSE]

\* No inspect_dbus_path() call yet.
NoInspect == [result |-> "none", value |-> None, obj |-> 0, bus |-> None]

\* No message is being built.
NoCodec ==
    [stage |-> "none", signature |-> << >>, args |-> << >>, bytes |-> << >>,
     contents |-> << >>, consumed |-> 0]

\* The object manager and the objects it may manage.
ManagerId == "manager"
ObjectIds == {ManagerId, "a", "b"}

\* An object that was not created yet, a handle that was not returned yet,
\* and no export yet (before, entry: the meta of the object and its entry in
\* the table of managed objects when the operation began).  A handle is "open" until close() was called on it;
\* via_manager tells that export_with_manager returned it; removals counts
\* the removals of the object that closing the handle announced.
NoObject ==
    [kind |-> "none", attached_bus |-> None, object_path |-> None,
     served |-> "never"]
NoHandle == [state |-> "none", items |-> << >>, via_manager |-> FALSE, removals |-> 0]
NoExport ==
    [op |-> None, obj |-> None, raised |-> None, before |-> NoObject,
     entry |-> None]

\* The value of the local property before any set, and no set yet.
InitialValue == "initial"
NoSet ==
    [via |-> None, has_setter |-> FALSE, alive |-> FALSE,
     has_properties_changed |-> FALSE, setter_raises |-> FALSE,
     value |-> None, raised |-> None, events |-> << >>]

\* The generators of DbusLocalSignal.catch(), and one that was not started:
\* object 0 is no object.
MaxCatchers == 2
CatcherIds == 1..MaxCatchers
NoCatcher == [object |-> 0, queue |-> << >>, state |-> "none"]

\* The two middleware lists of a method: for calls made through a proxy and
\* for calls that arrive from the bus.
Directions == {"to_dbus", "from_dbus"}

\* No call through the middlewares yet.
NoCall ==
    [direction |-> None, chain |-> << >>, next_calls |-> << >>,
     trace |-> << >>]

\* No close() of the export handle yet.
NoClose ==
    [by |-> None, before |-> << >>, closed |-> << >>, after |-> << >>,
     returned |-> FALSE]

\* No run of _method_handler yet.
NoHandled ==
    [ran |-> FALSE, expect_reply |-> FALSE, result_signature |-> << >>,
     callback |-> << >>, attempts |-> << >>, sent |-> << >>, propagated |-> None]

\* No add_property() call yet.
NoAdd == [result |-> "none", name |-> None, flags |-> << >>]

\* Before any class statement: no class, both registries empty; a new
\* interface builder without properties.
InitLib ==
    /\ classes = [c \in 1..MaxClasses |-> NoClass]
    /\ DBUS_INTERFACE_NAME_TO_CLASS = << >>
    /\ DBUS_CLASS_TO_META = << >>
    /\ lastDefine = NoDefine
    /\ interface_properties = << >>
    /\ lastAdd = NoAdd
    /\ members = << >>
    /\ lastBind = NoBind
    /\ objects = << >>
    /\ lastInspect = NoInspect
    /\ codec = NoCodec
    /\ lastHandled = NoHandled
    /\ handle_items = << >>
    /\ registered = 0
    /\ closedItems = << >>
    /\ lastClose = NoClose
    /\ registered_middlewares = [direction \in Directions |-> << >>]
    /\ lastCall = NoCall
    /\ signal_local_callbacks = {}
    /\ catchers = [s \in CatcherIds |-> NoCatcher]
    /\ stored = InitialValue
    /\ lastSet = NoSet
    /\ dbus_metas = [o \in ObjectIds |-> NoObject]
    /\ object_manager_slot = None
    /\ managed_object_to_path = [o \in ObjectIds |-> None]
    /\ export_handles = [o \in ObjectIds |-> NoHandle]
    /\ export_count = [o \in ObjectIds |-> 0]
    /\ announced = << >>
    /\ lastExport = NoExport

\* ---------------------------------------------------------- current message
\* The value of the context variable: which message it holds.  Unset is the
\* variable without a value, for which get_current_message() raises
\* LookupError.
Unset == <<"unset", 0>>
CallMessage(m) == <<"call", m.serial>>
SignalMessageId(message) == <<"signal", message.args>>

\* The contexts: that of the callbacks the event loop runs for the connection,
\* and one for the task of each method call, named by the call's serial.
LoopContext == 0
Contexts(n) == {LoopContext} \cup 1..n

\* _current_message.set(message): the new value and the token that remembers
\* the old one.
ContextVarSet(value, message) == [value |-> message, token |-> value]

\* Mutant of ContextVarReset: the value set stays.
ContextVarResetForgotten(value, token) == value

\* finally: _current_message.reset(token)
ContextVarReset(value, token) == token

\* with _set_current_message(message): callback(...) for a callback that does
\* not await: what get_current_message() gives inside, and the value after.
WithCurrentMessage(value, message) ==
    LET entered == ContextVarSet(value, message)
    IN  [seen |-> entered.value,
         value |-> ContextVarReset(entered.value, entered.token)]

\* A connected bus (sd_bus_open_user) on which nothing has happened yet, a
\* proxy that will make n calls, and m subscribers that have not subscribed yet.
InitState(n, m) ==
    /\ InitLib
    /\ current_message = [context \in Contexts(n) |-> Unset]
    /\ tokens = << >>
    /\ lastSeen = Unset
    /\ attached_bus = None
    /\ subs = [s \in 1..m |-> NewSubscriber]
    /\ local_callbacks = {}
    /\ slots = << >>
    /\ sigInbound = << >>
    /\ emitted = << >>
    /\ dispatched = << >>
    /\ connState = "open"
    /\ nextSerial = 1
    /\ pending = << >>
    /\ calls = [c \in 1..n |-> NewCall]
    /\ inbound = {}
    /\ running = {}
    /\ replies = {}
    /\ subclasses = BuiltinSubclasses
    /\ lastEvent = NoEvent

\* ------------------------------------------------------------ wire records


\* message.create_reply() with the data appended
MethodReturn(m, data) ==
    [reply_serial |-> m.serial, error |-> NoError, contents |-> data]

\* message.create_error_reply(name, message)
ErrorReply(m, name, message) ==
    [reply_serial |-> m.serial,
     error |-> [name |-> name, message |-> message],
     contents |-> None]

\* The classes whose definition has run: DbusMethodError.subclasses.values().
RegisteredClasses == {subclasses[n] : n \in DOMAIN subclasses}

\* What a user's handler may raise: a registered subclass (carrying its own
\* name), the base class with an explicit name=, or an unrelated exception.
RaisableExceptions ==
    {NewMethodError(cls, None, None) : cls \in RegisteredClasses \cap RaisedClasses}
    \cup {NewMethodError(MethodCallError, msg, n) : msg \in ErrorMessages, n \in RaisedNames}
    \cup {OtherException(IndependentError)}

\* What a user's handler does: it returns a value (which fits the declared
\* signature or does not) or raises an exception (a subclass of Exception, as
\* `except Exception` catches them).
HandlerOutcomes ==
    {[type |-> "return", data |-> HelloWorld, fits |-> f, exc |-> NoExc] : f \in BOOLEAN}
    \cup {[type |-> "raise", data |-> None, fits |-> TRUE, exc |-> e] : e \in RaisableExceptions}

\* ------------------------------------------------------------ service side

\* Mutant of _method_handler: the handler's exception is put on the wire as
\* it is, whatever its class.
MethodHandlerNoFailedMapping(m, outcome) ==
    LET exc == IF outcome.type = "raise" THEN outcome.exc ELSE OtherException(TypeError)
        failed == outcome.type = "raise" \/ ~outcome.fits
    IN  IF ~m.expect_reply THEN NoReply
        ELSE IF failed
             THEN ErrorReply(m, IF exc.error_name = None THEN exc.cls ELSE exc.error_name,
                             IF exc.error_message = None THEN "" ELSE exc.error_message)
             ELSE MethodReturn(m, outcome.data)

\* SdBusInterfaceBuilder._method_handler: the reply it sends for message m when
\* the user's callback ends as `outcome`; NoReply when it sends nothing.
MethodHandler(m, outcome) ==
    LET \* append_data raises TypeError on a value that does not fit
        exc == IF outcome.type = "raise" THEN outcome.exc ELSE OtherException(TypeError)
        failed == outcome.type = "raise" \/ ~outcome.fits
        error == IF IsMethodCallError(exc)
                 THEN exc
                 ELSE NewMethodError(CallFailedError, None, None)
    IN  IF ~m.expect_reply THEN NoReply
        ELSE IF failed
             THEN ErrorReply(m, error.error_name,
                             IF error.error_message = None THEN "" ELSE error.error_message)
             ELSE MethodReturn(m, outcome.data)

\* add_property's getter and setter closures: the exception that leaves the
\* closure (NoExc when it ends normally).  They log and re-raise.
PropertyClosure(outcome) ==
    IF outcome.type = "raise" THEN outcome.exc
    ELSE IF ~outcome.fits THEN OtherException(TypeError)
    ELSE NoExc

\* The native property vtable: the reply for a property access whose Python
\* closure ended with exception exc (NoExc: normally).
NativePropertyReply(m, exc, data) ==
    IF exc = NoExc THEN MethodReturn(m, IF m.kind = "get" THEN data ELSE None)
    ELSE IF IsMethodCallError(exc)
         THEN ErrorReply(m, exc.error_name,
                         IF exc.error_message = None THEN "" ELSE exc.error_message)
         ELSE ErrorReply(m, FailedName, "")

\* ------------------------------------------------- native pending-call table

\* The error the native layer reports on a connection that is gone.
DisconnectedError == NewMethodError(DbusDisconnectedError, None, None)

\* register(serial): the table with the waiter of call c added.
Register(table, serial, c) ==
    [s \in DOMAIN table \cup {serial} |-> IF s = serial THEN c ELSE table[s]]

\* Mutant of Deregister: the entry of an abandoned call stays in the table.
DeregisterKeepsEntry(table, serial) == table

\* The entry of `serial` removed: by resolve(), and by a caller that abandons
\* its await.
Deregister(table, serial) ==
    [s \in DOMAIN table \ {serial} |-> table[s]]

\* Mutant of Waiter: a reply with no entry of its own is handed to the oldest
\* pending call.
WaiterOrOldest(table, serial) ==
    IF serial \in DOMAIN table THEN {table[serial]}
    ELSE IF DOMAIN table = {} THEN {}
    ELSE {table[CHOOSE s \in DOMAIN table : \A t \in DOMAIN table : s <= t]}

\* resolve(reply_serial): the calls whose waiter a reply with this
\* reply_serial wakes: the one registered under it, or none.
Waiter(table, serial) ==
    IF serial \in DOMAIN table THEN {table[serial]} ELSE {}

\* ------------------------------------------------------------- client side

\* SdBus._raise_on_error followed by `return reply.get_contents()`: how the
\* awaiting call_method / get_property / set_property ends on `reply`.
RaiseOnError(call, reply) ==
    IF reply.error # NoError
    THEN [call EXCEPT !.state = "raised",
                      !.exc = Create(subclasses, reply.error.name, reply.error.message),
                      !.reply = reply,
                      !.resolved = @ + 1]
    ELSE [call EXCEPT !.state = "returned",
                      !.result = IF call.kind = "set" THEN None ELSE reply.contents,
                      !.reply = reply,
                      !.resolved = @ + 1]

\* The next call this proxy makes.
NextCallId == CHOOSE c \in CallIds : calls[c].state = "new" /\ \A d \in 1..(c - 1) : calls[d].state # "new"

\* Mutant of NewMethodCallMessage: expect_reply is left set.
NewMethodCallMessageExpectsReply(serial, kind, no_reply) ==
    [serial |-> serial, kind |-> kind, expect_reply |-> TRUE]

\* new_method_call_message(...) and, with no_reply, message.expect_reply = False
NewMethodCallMessage(serial, kind, no_reply) ==
    [serial |-> serial, kind |-> kind, expect_reply |-> ~no_reply]

\* SdBus.call_method / get_property / set_property up to the await: the
\* message is built and sent; with no_reply the call returns () at once.
CallMethod(kind, no_reply) ==
    /\ \E c \in CallIds : calls[c].state = "new"
    /\ kind = "method" \/ ~no_reply
    /\ LET c == NextCallId
           m == NewMethodCallMessage(nextSerial, kind, no_reply)
       IN  IF connState = "closed"
           THEN /\ calls' = [calls EXCEPT ![c] = [@ EXCEPT !.state = "raised",
                                                          !.kind = kind,
                                                          !.no_reply = no_reply,
                                                          !.exc = DisconnectedError]]
                /\ lastEvent' = OtherEvent
                /\ UNCHANGED <<nextSerial, pending, inbound>>
           ELSE /\ nextSerial' = nextSerial + 1
                /\ inbound' = inbound \cup {m}
                /\ lastEvent' = OtherEvent
                /\ IF no_reply
                   THEN /\ calls' = [calls EXCEPT ![c] = [@ EXCEPT !.state = "returned",
                                                                  !.kind = kind,
                                                                  !.no_reply = TRUE,
                                                                  !.serial = m.serial,
                                                                  !.result = "()"]]
                        /\ UNCHANGED pending
                   ELSE /\ calls' = [calls EXCEPT ![c] = [@ EXCEPT !.state = "pending",
                                                                  !.kind = kind,
                                                                  !.serial = m.serial]]
                        /\ pending' = Register(pending, m.serial, c)
    /\ UNCHANGED sigVars
    /\ UNCHANGED libVars
    /\ UNCHANGED msgVars
    /\ UNCHANGED <<connState, running, replies, subclasses>>

\* The call that sent message m.
CallOf(m) == CHOOSE c \in CallIds : calls[c].serial = m.serial

\* The native dispatcher starts the coroutine _method_handler for an inbound
\* method call; it runs up to `await callback(...)`.
MethodHandlerStart(m) ==
    /\ connState = "open"
    /\ m \in inbound
    /\ m.kind = "method"
    /\ inbound' = inbound \ {m}
    /\ running' = running \cup {m}
    /\ LET entered == ContextVarSet(current_message[LoopContext], CallMessage(m))
       IN  /\ current_message' = [current_message EXCEPT ![m.serial] = entered.value]
           /\ tokens' = (m.serial :> entered.token) @@ tokens
    /\ UNCHANGED lastSeen
    /\ lastEvent' = OtherEvent
    /\ UNCHANGED sigVars
    /\ UNCHANGED libVars
    /\ UNCHANGED <<connState, nextSerial, pending, calls, replies, subclasses>>

\* reply.send(): on a closed connection nothing reaches the wire.
Send(reply) ==
    IF reply = NoReply \/ connState = "closed" THEN replies ELSE replies \cup {reply}

\* Mutant of MethodHandlerEnd: a handler's exception takes the connection down.
MethodHandlerEndBreaks(m, outcome) ==
    /\ m \in running
    /\ running' = running \ {m}
    /\ replies' = Send(MethodHandler(m, outcome))
    /\ calls' = [calls EXCEPT ![CallOf(m)] =
                    [@ EXCEPT !.handled = outcome.type, !.raised = PropertyClosure(outcome)]]
    /\ current_message' =
          [current_message EXCEPT
              ![m.serial] = ContextVarReset(@, tokens[m.serial])]
    /\ tokens' = [t \in DOMAIN tokens \ {m.serial} |-> tokens[t]]
    /\ UNCHANGED lastSeen
    /\ connState' = IF outcome.type = "raise" THEN "closed" ELSE connState
    /\ lastEvent' = OtherEvent
    /\ UNCHANGED sigVars
    /\ UNCHANGED libVars
    /\ UNCHANGED <<nextSerial, pending, inbound, subclasses>>

\* The user's callback ends and _method_handler runs to its end.
MethodHandlerEnd(m, outcome) ==
    /\ m \in running
    /\ running' = running \ {m}
    /\ replies' = Send(MethodHandler(m, outcome))
    /\ calls' = [calls EXCEPT ![CallOf(m)] =
                    [@ EXCEPT !.handled = outcome.type, !.raised = PropertyClosure(outcome)]]
    /\ current_message' =
          [current_message EXCEPT
              ![m.serial] = ContextVarReset(@, tokens[m.serial])]
    /\ tokens' = [t \in DOMAIN tokens \ {m.serial} |-> tokens[t]]
    /\ UNCHANGED lastSeen
    /\ lastEvent' = OtherEvent
    /\ UNCHANGED sigVars
    /\ UNCHANGED libVars
    /\ UNCHANGED <<connState, nextSerial, pending, inbound, subclasses>>

\* A property Get or Set arrives: the native vtable runs the getter or setter
\* closure of add_property and replies.
PropertyAccess(m, outcome) ==
    /\ connState = "open"
    /\ m \in inbound
    /\ m.kind \in {"get", "set"}
    /\ inbound' = inbound \ {m}
    /\ replies' = Send(NativePropertyReply(m, PropertyClosure(outcome), outcome.data))
    /\ calls' = [calls EXCEPT ![CallOf(m)] =
                    [@ EXCEPT !.handled = outcome.type, !.raised = PropertyClosure(outcome)]]
    /\ LET handled == WithCurrentMessage(current_message[LoopContext], CallMessage(m))
       IN  /\ lastSeen' = handled.seen
           /\ current_message' = [current_message EXCEPT ![LoopContext] = handled.value]
    /\ UNCHANGED tokens
    /\ lastEvent' = OtherEvent
    /\ UNCHANGED sigVars
    /\ UNCHANGED libVars
    /\ UNCHANGED <<connState, nextSerial, pending, running, subclasses>>

\* The receive loop reads one reply: it wakes the call registered under the
\* reply's reply_serial, which then runs _raise_on_error; without an entry the
\* reply is dropped.
Resolve(reply) ==
    LET woken == Waiter(pending, reply.reply_serial)
    IN  /\ calls' = [c \in CallIds |->
                        IF c \in woken THEN RaiseOnError(calls[c], reply) ELSE calls[c]]
        /\ pending' = Deregister(pending, reply.reply_serial)

DeliverReply(reply) ==
    /\ connState = "open"
    /\ reply \in replies
    /\ replies' = replies \ {reply}
    /\ Resolve(reply)
    /\ lastEvent' = Event("reply", 0, reply.reply_serial)
    /\ UNCHANGED sigVars
    /\ UNCHANGED libVars
    /\ UNCHANGED msgVars
    /\ UNCHANGED <<connState, nextSerial, inbound, running, subclasses>>

\* A reply no call of this connection is waiting for: a duplicate, or one a
\* peer made up.
DeliverStrayReply(serial, error) ==
    /\ connState = "open"
    /\ serial \notin DOMAIN pending
    /\ Resolve([reply_serial |-> serial, error |-> error, contents |-> None])
    /\ lastEvent' = Event("stray_reply", 0, 0)
    /\ UNCHANGED sigVars
    /\ UNCHANGED libVars
    /\ UNCHANGED msgVars
    /\ UNCHANGED <<connState, nextSerial, inbound, running, replies, subclasses>>

\* The caller gives up its await (a wait_for timeout cancels it): the native
\* layer drops the call's entry.
CancelCall(c) ==
    /\ calls[c].state = "pending"
    /\ pending' = Deregister(pending, calls[c].serial)
    /\ calls' = [calls EXCEPT ![c] = [@ EXCEPT !.state = "cancelled", !.resolved = @ + 1]]
    /\ lastEvent' = Event("cancel", c, calls[c].serial)
    /\ UNCHANGED sigVars
    /\ UNCHANGED libVars
    /\ UNCHANGED msgVars
    /\ UNCHANGED <<connState, nextSerial, inbound, running, replies, subclasses>>

\* Mutant of FailAll: the connection goes down and the waiters are left alone.
FailAllForgotten(table) == calls

\* fail_all(): every waiter in the table is woken with the disconnect error.
FailAll(table) ==
    [c \in CallIds |->
        IF \E s \in DOMAIN table : table[s] = c
        THEN [calls[c] EXCEPT !.state = "raised", !.exc = DisconnectedError,
                              !.resolved = @ + 1]
        ELSE calls[c]]

\* The connection goes down: pending calls fail, what is in flight is lost.
Teardown ==
    /\ connState' = "closed"
    /\ calls' = FailAll(pending)
    /\ pending' = << >>
    /\ inbound' = {}
    /\ replies' = {}
    /\ UNCHANGED sigVars
    /\ UNCHANGED libVars
    /\ UNCHANGED msgVars
    /\ UNCHANGED <<nextSerial, running, subclasses>>

\* SdBus.close() and SdBus.__exit__
close ==
    /\ Teardown
    /\ lastEvent' = Event("close", 0, 0)

\* The socket read fails or returns EOF.
ConnectionLost ==
    /\ connState = "open"
    /\ Teardown
    /\ lastEvent' = Event("lost", 0, 0)

\* A module defines class DbusDeriveMethodError(MethodCallError, name=...):
\* __init_subclass__ records it under its name.
InitSubclass(cls) ==
    /\ cls \notin RegisteredClasses
    /\ subclasses' = [n \in DOMAIN subclasses \cup {ClassErrorName(cls)} |->
                         IF n = ClassErrorName(cls) THEN cls ELSE subclasses[n]]
    /\ lastEvent' = OtherEvent
    /\ UNCHANGED sigVars
    /\ UNCHANGED libVars
    /\ UNCHANGED msgVars
    /\ UNCHANGED <<connState, nextSerial, pending, calls, inbound, running, replies>>

\* ----------------------------------------------------------- request_name

NameInQueueError == "SdBusRequestNameInQueueError"
NameExistsError == "SdBusRequestNameExistsError"
AlreadyOwner == "SdBusRequestNameAlreadyOwnerError"
SdBusRequestNameError == "SdBusRequestNameError"

\* The base class of each class of the request-name family and of DbusError.
Exception == "Exception"
RequestNameBases ==
    (DbusError :> Exception)
    @@ (SdBusRequestNameError :> DbusError)
    @@ (AlreadyOwner :> SdBusRequestNameError)
    @@ (NameExistsError :> SdBusRequestNameError)
    @@ (NameInQueueError :> SdBusRequestNameError)

\* issubclass(cls, base) within that family
RECURSIVE IsSubclass(_, _)
IsSubclass(cls, base) ==
    \/ cls = base
    \/ cls \in DOMAIN RequestNameBases /\ IsSubclass(RequestNameBases[cls], base)

\* The classes that are DbusError or derive from it.
DbusErrorClasses ==
    MethodErrorClasses
    \cup {DbusError, SdBusRequestNameError, NameInQueueError, NameExistsError, AlreadyOwner}

\* The codes the bus answers RequestName with; 5 stands for any other value.
PrimaryOwner == 1
InQueue == 2
Exists == 3
AlreadyOwnerCode == 4
UnknownCode == 5
ReplyCodes == PrimaryOwner..UnknownCode

\* What self._sdbus.request_name gives: the exception it raises (NoExc: none)
\* and the code of the bus's answer.
NativeRequestName(fail, code) ==
    IF connState = "closed" THEN [exc |-> DisconnectedError, code |-> 0]
    ELSE IF fail THEN [exc |-> OtherException(SdBusError), code |-> 0]
    ELSE [exc |-> NoExc, code |-> code]

\* Mutant of request_name: the answers 2 and 3 change places.
request_nameCodesSwapped(native) ==
    IF native.exc.cls = SdBusError
    THEN [state |-> "raised", exc |-> OtherException(DbusError)]
    ELSE IF native.exc # NoExc
    THEN [state |-> "raised", exc |-> native.exc]
    ELSE CASE native.code = PrimaryOwner -> [state |-> "returned", exc |-> NoExc]
           [] native.code = InQueue -> [state |-> "raised", exc |-> OtherException(NameExistsError)]
           [] native.code = Exists -> [state |-> "raised", exc |-> OtherException(NameInQueueError)]
           [] native.code = AlreadyOwnerCode -> [state |-> "raised", exc |-> OtherException(AlreadyOwner)]
           [] OTHER -> [state |-> "raised", exc |-> OtherException(DbusError)]

\* Mutant of request_name: an exception of the native request is swallowed.
request_nameSwallows(native) ==
    IF native.exc # NoExc \/ native.code = PrimaryOwner
    THEN [state |-> "returned", exc |-> NoExc]
    ELSE [state |-> "raised", exc |-> OtherException(DbusError)]

\* SdBus.request_name
request_name(native) ==
    IF native.exc.cls = SdBusError
    THEN [state |-> "raised", exc |-> OtherException(DbusError)]
    ELSE IF native.exc # NoExc
    THEN [state |-> "raised", exc |-> native.exc]
    ELSE CASE native.code = PrimaryOwner -> [state |-> "returned", exc |-> NoExc]
           [] native.code = InQueue -> [state |-> "raised", exc |-> OtherException(NameInQueueError)]
           [] native.code = Exists -> [state |-> "raised", exc |-> OtherException(NameExistsError)]
           [] native.code = AlreadyOwnerCode -> [state |-> "raised", exc |-> OtherException(AlreadyOwner)]
           [] OTHER -> [state |-> "raised", exc |-> OtherException(DbusError)]

\* A request_name call, from the request to the bus's answer.
RequestName(fail, code) ==
    /\ lastEvent' = [type |-> "request_name", serial |-> 0,
                      outcome |-> request_name(NativeRequestName(fail, code)),
                      native |-> NativeRequestName(fail, code)]
    /\ UNCHANGED sigVars
    /\ UNCHANGED libVars
    /\ UNCHANGED msgVars
    /\ UNCHANGED <<connState, nextSerial, pending, calls, inbound, running, replies,
                   subclasses>>

StrayErrors == {[name |-> FailedName, message |-> ""]}

\* Calls and their replies, with everything a handler may do.
NextCall ==
    \/ \E kind \in Kinds, no_reply \in BOOLEAN : CallMethod(kind, no_reply)
    \/ \E m \in inbound : MethodHandlerStart(m)
    \/ \E m \in running, outcome \in HandlerOutcomes : MethodHandlerEnd(m, outcome)
    \/ \E m \in inbound, outcome \in HandlerOutcomes : PropertyAccess(m, outcome)
    \/ \E reply \in replies : DeliverReply(reply)
    \/ \E c \in CallIds : CancelCall(c)
    \/ close
    \/ InitSubclass(DbusDeriveMethodError)

InitCall == InitState(MaxHandledCalls, 0)

SpecCall == InitCall /\ [][NextCall]_vars

\* For the pending-call table and the connection's life it is enough that a
\* handler either returns or fails.
PlainOutcomes ==
    {o \in HandlerOutcomes :
        \/ o.type = "return" /\ o.fits
        \/ o.exc = OtherException(IndependentError)}

\* The connection's life: calls, replies (also stray ones), abandoned calls,
\* name requests, close and loss.
NextConn ==
    \/ \E kind \in Kinds, no_reply \in BOOLEAN : CallMethod(kind, no_reply)
    \/ \E m \in inbound : MethodHandlerStart(m)
    \/ \E m \in running, outcome \in PlainOutcomes : MethodHandlerEnd(m, outcome)
    \/ \E m \in inbound, outcome \in PlainOutcomes : PropertyAccess(m, outcome)
    \/ \E reply \in replies : DeliverReply(reply)
    \/ \E serial \in 1..(MaxCalls + 1), error \in StrayErrors : DeliverStrayReply(serial, error)
    \/ \E c \in CallIds : CancelCall(c)
    \/ close
    \/ ConnectionLost
    \/ \E fail \in BOOLEAN, code \in ReplyCodes : RequestName(fail, code)

InitConn == InitState(MaxCalls, 0)

SpecConn == InitConn /\ [][NextConn]_vars

\* ---------------------------------------------------------- signal dispatch

SubIds == DOMAIN subs

\* Mutant of Matches: the interface filter is not looked at.
MatchesIgnoringInterface(rule, message) ==
    /\ rule.sender \in {None, message.sender}
    /\ rule.path \in {None, message.path}
    /\ rule.member \in {None, message.member}

\* The match of a rule against a signal message: every filter that is set
\* equals the message's field.
Matches(rule, message) ==
    /\ rule.sender \in {None, message.sender}
    /\ rule.path \in {None, message.path}
    /\ rule.interface \in {None, message.interface}
    /\ rule.member \in {None, message.member}

\* match_signal_async(sender, path, interface, member, callback): a new match
\* slot for subscriber s in the connection's table.
match_signal_async(table, s, sender, path, interface, member, callback) ==
    (s :> [rule |-> Filters(sender, path, interface, member),
           callback |-> callback]) @@ table

\* slot.close(): the match is removed.
SlotClose(table, s) == [t \in DOMAIN table \ {s} |-> table[t]]

\* Mutant of PutNowait: a queue of one place.
PutNowaitBounded(queue, item) ==
    IF Len(queue) >= 1
    THEN [raised |-> TRUE, queue |-> queue]
    ELSE [raised |-> FALSE, queue |-> Append(queue, item)]

\* Queue.put_nowait(item): QueueFull when the queue has a limit and is full.
PutNowait(queue, item) ==
    IF QueueMaxsize > 0 /\ Len(queue) >= QueueMaxsize
    THEN [raised |-> TRUE, queue |-> queue]
    ELSE [raised |-> FALSE, queue |-> Append(queue, item)]

\* SdBus._signal_handler(callback, message): the callback is called with the
\* message; an exception it raises is logged.
SignalHandler(queue, message) == PutNowait(queue, message).queue

\* What a slot's callback does with a message.
Callback(slot, queue, message) ==
    IF slot.callback = "_signal_handler"
    THEN SignalHandler(queue, message)
    ELSE PutNowait(queue, message).queue

\* SdBus.subscribe_signals(sender_filter, path_filter, interface_filter,
\* member_filter, callback)
subscribe_signals(table, s, sender_filter, path_filter, interface_filter, member_filter) ==
    match_signal_async(table, s, sender_filter, path_filter, interface_filter,
                       member_filter, "_signal_handler")

\* DbusProxySignal._register_match_slot(bus, callback)
RegisterMatchSlot(table, s) ==
    match_signal_async(table, s, ServiceName, ObjectPath, InterfaceName,
                       SignalName, "put_nowait")

\* A caller subscribes a callback with the filters it chooses.
SubscribeSignals(s, sender_filter, path_filter, interface_filter, member_filter) ==
    /\ subs[s].state = "none"
    /\ slots' = subscribe_signals(slots, s, sender_filter, path_filter,
                                  interface_filter, member_filter)
    /\ subs' = [subs EXCEPT ![s] =
                  [@ EXCEPT !.kind = "callback", !.state = "subscribed",
                            !.filters = Filters(sender_filter, path_filter,
                                                interface_filter, member_filter),
                            !.registered = TRUE, !.since = Len(dispatched)]]
    /\ lastEvent' = OtherEvent
    /\ UNCHANGED <<attached_bus, local_callbacks, sigInbound, emitted, dispatched>>
    /\ UNCHANGED callVars
    /\ UNCHANGED libVars
    /\ UNCHANGED msgVars

\* The caller closes the Closeable that subscribe_signals returned.
CloseSlot(s) ==
    /\ subs[s].state = "subscribed"
    /\ slots' = SlotClose(slots, s)
    /\ subs' = [subs EXCEPT ![s] =
                  [@ EXCEPT !.state = "closed", !.until = Len(dispatched),
                            !.removals = @ + 1]]
    /\ lastEvent' = OtherEvent
    /\ UNCHANGED <<attached_bus, local_callbacks, sigInbound, emitted, dispatched>>
    /\ UNCHANGED callVars
    /\ UNCHANGED libVars
    /\ UNCHANGED msgVars

\* Some peer's signal reaches the connection.
SignalArrives(header) ==
    /\ Len(sigInbound) + Len(dispatched) < MaxArrivals
    /\ sigInbound' = Append(sigInbound,
                            SignalMessage(header.sender, header.path, header.interface,
                                          header.member,
                                          Len(sigInbound) + Len(dispatched) + 1))
    /\ lastEvent' = OtherEvent
    /\ UNCHANGED <<attached_bus, subs, local_callbacks, slots, emitted, dispatched>>
    /\ UNCHANGED callVars
    /\ UNCHANGED libVars
    /\ UNCHANGED msgVars

\* The receive loop reads one signal message and calls the callback of every
\* slot whose rule matches it.
Dispatch ==
    /\ sigInbound # << >>
    /\ LET message == Head(sigInbound) IN
        /\ sigInbound' = Tail(sigInbound)
        /\ dispatched' = Append(dispatched, message)
        /\ subs' = [s \in SubIds |->
                      IF s \in DOMAIN slots /\ Matches(slots[s].rule, message)
                      THEN [subs[s] EXCEPT
                              !.queue = Callback(slots[s], subs[s].queue, message)]
                      ELSE subs[s]]
        /\ LET handled == WithCurrentMessage(current_message[LoopContext],
                                             SignalMessageId(message))
           IN  IF \E s \in DOMAIN slots : /\ Matches(slots[s].rule, message)
                                          /\ slots[s].callback = "_signal_handler"
               THEN /\ lastSeen' = handled.seen
                    /\ current_message' =
                          [current_message EXCEPT ![LoopContext] = handled.value]
               ELSE UNCHANGED <<lastSeen, current_message>>
    /\ UNCHANGED tokens
    /\ lastEvent' = Event("dispatch", 0, 0)
    /\ UNCHANGED <<attached_bus, local_callbacks, slots, emitted>>
    /\ UNCHANGED callVars
    /\ UNCHANGED libVars

\* ------------------------------------------------- local object and catch()

\* export_to_dbus(object_path, bus): the object gets its bus and its path.
ExportToDbus ==
    /\ attached_bus = None
    /\ attached_bus' = "bus"
    /\ lastEvent' = OtherEvent
    /\ UNCHANGED <<subs, local_callbacks, slots, sigInbound, emitted, dispatched>>
    /\ UNCHANGED callVars
    /\ UNCHANGED libVars
    /\ UNCHANGED msgVars

\* signal.catch() / __aiter__: a generator object whose body has not started.
Catch(s, kind) ==
    /\ subs[s].state = "none"
    /\ subs' = [subs EXCEPT ![s] =
                  [@ EXCEPT !.kind = kind, !.state = "created",
                            !.filters = IF kind = "proxy"
                                        THEN Filters(ServiceName, ObjectPath,
                                                     InterfaceName, SignalName)
                                        ELSE NoFilters]]
    /\ lastEvent' = OtherEvent
    /\ UNCHANGED <<attached_bus, local_callbacks, slots, sigInbound, emitted, dispatched>>
    /\ UNCHANGED callVars
    /\ UNCHANGED libVars
    /\ UNCHANGED msgVars

\* DbusLocalSignal.catch, first step: the queue's put_nowait is added to
\* local_callbacks and the generator waits in queue.get().
StartLocal(s) ==
    /\ subs[s].state = "created"
    /\ subs[s].kind = "local"
    /\ local_callbacks' = local_callbacks \cup {s}
    /\ subs' = [subs EXCEPT ![s] =
                  [@ EXCEPT !.state = "waiting", !.registered = TRUE,
                            !.since = Len(emitted)]]
    /\ lastEvent' = OtherEvent
    /\ UNCHANGED <<attached_bus, slots, sigInbound, emitted, dispatched>>
    /\ UNCHANGED callVars
    /\ UNCHANGED libVars
    /\ UNCHANGED msgVars

\* DbusProxySignal.catch, first step: the match slot is registered with the
\* queue's put_nowait and the generator waits in queue.get().
StartProxy(s) ==
    /\ subs[s].state = "created"
    /\ subs[s].kind = "proxy"
    /\ slots' = RegisterMatchSlot(slots, s)
    /\ subs' = [subs EXCEPT ![s] =
                  [@ EXCEPT !.state = "waiting", !.registered = TRUE,
                            !.since = Len(dispatched)]]
    /\ lastEvent' = OtherEvent
    /\ UNCHANGED <<attached_bus, local_callbacks, sigInbound, emitted, dispatched>>
    /\ UNCHANGED callVars
    /\ UNCHANGED libVars
    /\ UNCHANGED msgVars

\* What the generator yields for a queue item: the local queue holds the
\* arguments, the proxy's queue holds messages.
Yielded(sub, item) == IF sub.kind = "proxy" THEN GetContents(item) ELSE item

\* `await queue.get()` returns and the generator yields the item.
Get(s) ==
    /\ subs[s].state = "waiting"
    /\ subs[s].queue # << >>
    /\ subs' = [subs EXCEPT ![s] =
                  [@ EXCEPT !.state = "yielded", !.queue = Tail(@),
                            !.got = Append(@, Yielded(subs[s], Head(subs[s].queue)))]]
    /\ lastEvent' = OtherEvent
    /\ UNCHANGED <<attached_bus, local_callbacks, slots, sigInbound, emitted, dispatched>>
    /\ UNCHANGED callVars
    /\ UNCHANGED libVars
    /\ UNCHANGED msgVars

\* The consumer asks for the next item: the generator is back in queue.get().
Anext(s) ==
    /\ subs[s].state = "yielded"
    /\ subs' = [subs EXCEPT ![s].state = "waiting"]
    /\ lastEvent' = OtherEvent
    /\ UNCHANGED <<attached_bus, local_callbacks, slots, sigInbound, emitted, dispatched>>
    /\ UNCHANGED callVars
    /\ UNCHANGED libVars
    /\ UNCHANGED msgVars

\* Mutant of RemoveCallback: the callback stays in the set.
RemoveCallbackForgotten(callbacks, s) == callbacks

\* finally: signal_callbacks.remove(put_method)
RemoveCallback(callbacks, s) == callbacks \ {s}

\* The generator's body is left, by an exception thrown into it at its
\* suspension point: the `finally` of the local catch and the `closing` of the
\* proxy's catch run.
Finalize(s) ==
    /\ IF subs[s].kind = "local"
       THEN /\ local_callbacks' = RemoveCallback(local_callbacks, s)
            /\ UNCHANGED slots
       ELSE /\ slots' = SlotClose(slots, s)
            /\ UNCHANGED local_callbacks
    /\ subs' = [subs EXCEPT ![s] =
                  [@ EXCEPT !.state = "closed", !.removals = @ + 1,
                            !.until = IF subs[s].kind = "local"
                                      THEN Len(emitted) ELSE Len(dispatched)]]

\* The task iterating the subscription is cancelled while the generator
\* waits in queue.get(): CancelledError is raised there.
Cancel(s) ==
    /\ subs[s].state = "waiting"
    /\ Finalize(s)
    /\ lastEvent' = OtherEvent
    /\ UNCHANGED <<attached_bus, sigInbound, emitted, dispatched>>
    /\ UNCHANGED callVars
    /\ UNCHANGED libVars
    /\ UNCHANGED msgVars

\* aclose(), called by the consumer or, after the consumer dropped the
\* generator (an exception in the loop body), by the event loop's finalizer:
\* GeneratorExit is raised at the yield.  A generator whose body never started
\* just finishes, a finished one is left as it is.
Aclose(s) ==
    /\ subs[s].state \in {"created", "yielded", "closed"}
    /\ IF subs[s].state = "yielded"
       THEN Finalize(s)
       ELSE /\ subs' = [subs EXCEPT ![s].state = "closed"]
            /\ UNCHANGED <<local_callbacks, slots>>
    /\ lastEvent' = Event("aclose", 0, 0)
    /\ UNCHANGED <<attached_bus, sigInbound, emitted, dispatched>>
    /\ UNCHANGED callVars
    /\ UNCHANGED libVars
    /\ UNCHANGED msgVars

\* The orders in which a loop can go through a set.
Orders(S) ==
    {o \in [1..Cardinality(S) -> S] :
        \A i, j \in 1..Cardinality(S) : i # j => o[i] # o[j]}

\* Mutant of CallEach: the loop ends after the first callback.
CallEachFirstOnly(order, table, args) ==
    IF order = << >>
    THEN table
    ELSE [table EXCEPT ![Head(order)].queue = PutNowait(@, args).queue]

\* for callback in self.dbus_signal.local_callbacks: callback(args)
\* An exception of a callback ends the loop.
RECURSIVE CallEach(_, _, _)
CallEach(order, table, args) ==
    IF order = << >>
    THEN table
    ELSE LET put == PutNowait(table[Head(order)].queue, args) IN
         IF put.raised
         THEN table
         ELSE CallEach(Tail(order), [table EXCEPT ![Head(order)].queue = put.queue],
                       args)

\* _emit_dbus_signal(args): nothing without a bus or a path; else the signal
\* message is built and sent, which the native layer can refuse.
EmitDbusSignal(args, fail) ==
    IF attached_bus = None
    THEN [raised |-> FALSE, wire |-> sigInbound]
    ELSE IF fail
         THEN [raised |-> TRUE, wire |-> sigInbound]
         ELSE [raised |-> FALSE,
               wire |-> Append(sigInbound,
                               SignalMessage(ServiceName, ObjectPath, InterfaceName,
                                             SignalName, args))]

\* DbusLocalSignal.emit(args): the signal goes to the bus, then to every
\* callback in local_callbacks.  An emit that raises in _emit_dbus_signal has
\* emitted nothing.
Emit(fail, order) ==
    /\ Len(emitted) < MaxSignals
    /\ fail => attached_bus # None
    /\ LET args == Len(emitted) + 1
           sent == EmitDbusSignal(args, fail) IN
        IF sent.raised
        THEN /\ lastEvent' = Event("emit_raised", 0, 0)
             /\ UNCHANGED <<sigInbound, subs, emitted>>
        ELSE /\ sigInbound' = sent.wire
             /\ subs' = CallEach(order, subs, args)
             /\ emitted' = Append(emitted, args)
             /\ lastEvent' = Event("emit", 0, 0)
    /\ UNCHANGED <<attached_bus, local_callbacks, slots, dispatched>>
    /\ UNCHANGED callVars
    /\ UNCHANGED libVars
    /\ UNCHANGED msgVars

\* ------------------------------------------------------------ SpecSignal
\* One exported object emits its signal; local and proxy subscribers iterate
\* over it.
SubKinds == {"local", "proxy"}

NextSignal ==
    \/ ExportToDbus
    \/ \E s \in SubIds, kind \in SubKinds : Catch(s, kind)
    \/ \E s \in SubIds : StartLocal(s)
    \/ \E s \in SubIds : StartProxy(s)
    \/ \E fail \in BOOLEAN, order \in Orders(local_callbacks) : Emit(fail, order)
    \/ Dispatch
    \/ \E s \in SubIds : Get(s)
    \/ \E s \in SubIds : Anext(s)
    \/ \E s \in SubIds : Cancel(s)
    \/ \E s \in SubIds : Aclose(s)

InitSignal == InitState(0, MaxSubs)

SpecSignal == InitSignal /\ [][NextSignal]_vars

\* ------------------------------------------------------------- SpecMatch
\* Callbacks subscribed with any filters, signals of any header.
FilterValues(S) == S \cup {None}

NextMatch ==
    \/ \E s \in SubIds, sender_filter \in FilterValues(Senders),
          path_filter \in FilterValues(Paths),
          interface_filter \in FilterValues(Interfaces),
          member_filter \in FilterValues(Members) :
            SubscribeSignals(s, sender_filter, path_filter, interface_filter,
                             member_filter)
    \/ \E s \in SubIds : CloseSlot(s)
    \/ \E header \in SignalHeaders : SignalArrives(header)
    \/ Dispatch

InitMatch == InitState(0, MaxMatchSubs)

SpecMatch == InitMatch /\ [][NextMatch]_vars

\* ----------------------------------------------------------- SpecMessage
\* Method calls, property accesses and a signal callback handled on one
\* connection: the handlers that set the current message.
ObjectSignalHeader ==
    [sender |-> ServiceName, path |-> ObjectPath, interface |-> InterfaceName,
     member |-> SignalName]

NextMessage ==
    \/ \E kind \in Kinds, no_reply \in BOOLEAN : CallMethod(kind, no_reply)
    \/ \E m \in inbound : MethodHandlerStart(m)
    \/ \E m \in running, outcome \in PlainOutcomes : MethodHandlerEnd(m, outcome)
    \/ \E m \in inbound, outcome \in PlainOutcomes : PropertyAccess(m, outcome)
    \/ \E reply \in replies : DeliverReply(reply)
    \/ \E s \in SubIds : SubscribeSignals(s, None, None, None, None)
    \/ SignalArrives(ObjectSignalHeader)
    \/ Dispatch

InitMessage == InitState(MaxCalls, MaxMatchSubs)

SpecMessage == InitMessage /\ [][NextMessage]_vars

\* -------------------------------------------------------------- SpecClass
\* Class statements with DbusInterfaceMeta as the metaclass, `del` of a class
\* and garbage collection.
ClassIds == DOMAIN classes
InterfaceNames == {"org.example.foo", "org.example.bar"}
\* A name is_interface_name_valid rejects.
InvalidInterfaceName == "0.test"
\* Python attribute names a class body binds new D-Bus members to.
AttrNames == {"example", "other"}

\* The classes the program can still reach: the ones it holds a reference to
\* and their ancestors.
Live == {c \in ClassIds : classes[c].state = "live"}

\* c.__mro__ as a set: the class and all its ancestors.
RECURSIVE Mro(_)
Mro(c) == {c} \cup UNION {Mro(b) : b \in classes[c].bases}

\* The elements of a set in some order.
RECURSIVE SetToSeq(_)
SetToSeq(S) ==
    IF S = {} THEN << >>
    ELSE LET x == CHOOSE x \in S : TRUE IN <<x>> \o SetToSeq(S \ {x})

\* chain.from_iterable(c.__mro__ for c in bases)
RECURSIVE Chain(_)
Chain(bases) ==
    IF bases = << >> THEN << >>
    ELSE SetToSeq(Mro(Head(bases))) \o Chain(Tail(bases))

\* Mutant of AllMroBases: the chained MROs without set().
AllMroBasesChained(bases) == Chain(SetToSeq(bases))

\* all_mro_bases = set(chain.from_iterable(c.__mro__ for c in bases)), in the
\* order the loop of _map_mro_dbus_members goes through it.
AllMroBases(bases) ==
    LET chained == Chain(SetToSeq(bases))
    IN  SetToSeq({chained[i] : i \in 1..Len(chained)})

\* _extract_dbus_members(c, dbus_meta): the attribute names of the class's
\* own D-Bus members.
ExtractDbusMembers(c) == DBUS_CLASS_TO_META[c].python_attr_to_dbus_member

\* The loop of _map_mro_dbus_members over the base classes.
RECURSIVE MapMroLoop(_, _, _)
MapMroLoop(base_classes, all_python_dbus_map, possible_collisions) ==
    IF base_classes = << >>
    THEN [all_python_dbus_map |-> all_python_dbus_map,
          possible_collisions |-> possible_collisions]
    ELSE LET c == Head(base_classes) IN
         IF c \notin DOMAIN DBUS_CLASS_TO_META
         THEN MapMroLoop(Tail(base_classes), all_python_dbus_map, possible_collisions)
         ELSE MapMroLoop(Tail(base_classes),
                         all_python_dbus_map \cup ExtractDbusMembers(c),
                         possible_collisions
                            \cup (ExtractDbusMembers(c) \cap all_python_dbus_map))

\* _map_mro_dbus_members(new_class_name, base_classes)
MapMroDbusMembers(base_classes) == MapMroLoop(base_classes, {}, {})

\* Mutant of NameTaken: the registry is not asked.
NameTakenNever(interface_name) == FALSE

\* interface_name in DBUS_INTERFACE_NAME_TO_CLASS
NameTaken(interface_name) == interface_name \in DOMAIN DBUS_INTERFACE_NAME_TO_CLASS

\* Mutant of InitMembers: a member without an interface name is let through.
InitMembersLenient(namespace, interface_name) == "ok"

\* _init_members(name, namespace, interface_name, serving_enabled): every new
\* member of the body gets the interface name; without one TypeError.
InitMembers(namespace, interface_name) ==
    IF namespace # {} /\ interface_name = None THEN "TypeError" ELSE "ok"

Result(result, message) == [result |-> result, message |-> message]

\* DbusInterfaceMeta.__new__ up to super().__new__: how the class statement
\* ends.
New(bases, namespace, interface_name) ==
    LET reserved_dbus_map == MapMroDbusMembers(AllMroBases(bases)) IN
    IF NameTaken(interface_name)
    THEN Result("ValueError", "already created")
    ELSE IF reserved_dbus_map.possible_collisions # {}
    THEN Result("ValueError", "collision")
    ELSE IF namespace \cap reserved_dbus_map.all_python_dbus_map # {}
    THEN Result("ValueError", "redefines reserved")
    ELSE IF interface_name = InvalidInterfaceName
    THEN Result("AssertionError", "Invalid interface name")
    ELSE IF InitMembers(namespace, interface_name) = "TypeError"
    THEN Result("TypeError", "without interface name")
    ELSE Result("created", None)

\* A class statement: class name(*bases, interface_name=...) with a body that
\* binds new D-Bus members to the attribute names in namespace.
DefineClass(bases, namespace, interface_name) ==
    /\ \E c \in ClassIds : classes[c].state = "none"
    /\ bases \subseteq Live
    /\ LET c == CHOOSE c \in ClassIds :
                   /\ classes[c].state = "none"
                   /\ \A d \in 1..(c - 1) : classes[d].state # "none"
           ended == New(bases, namespace, interface_name)
       IN  /\ lastDefine' = [result |-> ended.result, message |-> ended.message,
                             bases |-> bases, namespace |-> namespace,
                             interface_name |-> interface_name]
           /\ IF ended.result = "created"
              THEN /\ classes' = [classes EXCEPT ![c] =
                                     [state |-> "live", interface_name |-> interface_name,
                                      bases |-> bases, namespace |-> namespace]]
                   /\ IF interface_name # None
                      THEN /\ DBUS_CLASS_TO_META' =
                                 (c :> [interface_name |-> interface_name,
                                        python_attr_to_dbus_member |-> namespace])
                                 @@ DBUS_CLASS_TO_META
                           /\ DBUS_INTERFACE_NAME_TO_CLASS' =
                                 (interface_name :> c) @@ DBUS_INTERFACE_NAME_TO_CLASS
                      ELSE UNCHANGED <<DBUS_CLASS_TO_META, DBUS_INTERFACE_NAME_TO_CLASS>>
              ELSE UNCHANGED <<classes, DBUS_CLASS_TO_META, DBUS_INTERFACE_NAME_TO_CLASS>>
    /\ UNCHANGED notClsVars

\* del: the program gives up its reference to a class.
Del(c) ==
    /\ classes[c].state = "live"
    /\ classes' = [classes EXCEPT ![c].state = "dropped"]
    /\ lastDefine' = NoDefine
    /\ UNCHANGED <<DBUS_CLASS_TO_META, DBUS_INTERFACE_NAME_TO_CLASS>>
    /\ UNCHANGED notClsVars

\* The dropped classes no live class derives from.
Garbage ==
    {c \in ClassIds : /\ classes[c].state = "dropped"
                      /\ \A d \in Live : c \notin Mro(d)}

\* gc.collect(): the garbage classes go, and with them their entries in the
\* two weak dictionaries.
Collect ==
    /\ Garbage # {}
    /\ classes' = [c \in ClassIds |->
                     IF c \in Garbage THEN [classes[c] EXCEPT !.state = "collected"]
                     ELSE classes[c]]
    /\ DBUS_CLASS_TO_META' =
          [c \in DOMAIN DBUS_CLASS_TO_META \ Garbage |-> DBUS_CLASS_TO_META[c]]
    /\ DBUS_INTERFACE_NAME_TO_CLASS' =
          [n \in {n \in DOMAIN DBUS_INTERFACE_NAME_TO_CLASS :
                     DBUS_INTERFACE_NAME_TO_CLASS[n] \notin Garbage}
             |-> DBUS_INTERFACE_NAME_TO_CLASS[n]]
    /\ lastDefine' = NoDefine
    /\ UNCHANGED notClsVars

NextClass ==
    \/ \E bases \in SUBSET Live, namespace \in SUBSET AttrNames,
          interface_name \in InterfaceNames \cup {None, InvalidInterfaceName} :
            DefineClass(bases, namespace, interface_name)
    \/ \E c \in ClassIds : Del(c)
    \/ Collect

InitClass == InitState(0, 0)

SpecClass == InitClass /\ [][NextClass]_vars

\* --------------------------------------------------------- property flags
\* The flag bits of the native module, those of sd-bus's vtable flags.
DbusDeprecatedFlag == 1
DbusHiddenFlag == 2
DbusUnprivilegedFlag == 4
DbusNoReplyFlag == 8
DbusPropertyConstFlag == 16
DbusPropertyEmitsChangeFlag == 32
DbusPropertyEmitsInvalidationFlag == 64
DbusPropertyExplicitFlag == 128

\* int.__and__, int.__or__ and int.bit_count on non-negative integers.
RECURSIVE BitAnd(_, _)
BitAnd(a, b) ==
    IF a = 0 \/ b = 0 THEN 0
    ELSE (a % 2) * (b % 2) + 2 * BitAnd(a \div 2, b \div 2)

RECURSIVE BitOr(_, _)
BitOr(a, b) ==
    IF a = 0 THEN b
    ELSE IF b = 0 THEN a
    ELSE (IF a % 2 = 1 \/ b % 2 = 1 THEN 1 ELSE 0) + 2 * BitOr(a \div 2, b \div 2)

RECURSIVE BitCount(_)
BitCount(n) == IF n = 0 THEN 0 ELSE (n % 2) + BitCount(n \div 2)

property_flags_mask ==
    BitOr(BitOr(DbusPropertyConstFlag, DbusPropertyEmitsChangeFlag),
          BitOr(DbusPropertyEmitsInvalidationFlag, DbusPropertyExplicitFlag))

\* _isolate_property_flags without the mask: every bit counts.
IsolatePropertyFlagsUnmasked(flags) == flags

\* _isolate_property_flags
IsolatePropertyFlags(flags) == BitAnd(flags, property_flags_mask)

flag_to_sdbus ==
    [deprecated |-> DbusDeprecatedFlag,
     hidden |-> DbusHiddenFlag,
     unprivileged |-> DbusUnprivilegedFlag,
     no_reply |-> DbusNoReplyFlag,
     explicit |-> DbusPropertyExplicitFlag,
     emits_change |-> DbusPropertyEmitsChangeFlag,
     emits_invalidation |-> DbusPropertyEmitsInvalidationFlag,
     const |-> DbusPropertyConstFlag]

\* The keyword arguments add_property() takes: PropertyFlags.  A flag that is
\* not passed adds nothing to the integer, like one passed as False.
PropertyFlagNames ==
    {"deprecated", "hidden", "unprivileged",
     "explicit", "emits_change", "emits_invalidation", "const"}
PropertyFlags == [PropertyFlagNames -> BOOLEAN]

\* _member_flags_to_int: the loop over flags.items().
RECURSIVE MemberFlagsToIntLoop(_, _, _)
MemberFlagsToIntLoop(flags, names, result) ==
    IF names = {} THEN result
    ELSE LET flag_name == CHOOSE n \in names : TRUE
         IN  MemberFlagsToIntLoop(
                 flags, names \ {flag_name},
                 IF flags[flag_name] THEN BitOr(result, flag_to_sdbus[flag_name])
                 ELSE result)

MemberFlagsToInt(flags) == MemberFlagsToIntLoop(flags, DOMAIN flags, 0)

\* _is_property_flags_correct
IsPropertyFlagsCorrect(flags) ==
    LET num_of_flag_bits == BitCount(IsolatePropertyFlags(flags))
    IN  0 <= num_of_flag_bits /\ num_of_flag_bits <= 1

PropertyNames == {"TestConstant"}
MaxProperties == 2

\* SdBusInterfaceBuilder.add_property: the assertion, then the native
\* interface gets the property with the flags integer.
add_property(properties, name, flags) ==
    LET flags_int == MemberFlagsToInt(flags)
    IN  IF ~IsPropertyFlagsCorrect(flags_int)
        THEN [raised |-> "AssertionError", properties |-> properties]
        ELSE [raised |-> None,
              properties |-> Append(properties, [name |-> name, flags |-> flags_int])]

AddProperty(name, flags) ==
    /\ Len(interface_properties) < MaxProperties
    /\ LET r == add_property(interface_properties, name, flags)
       IN  /\ interface_properties' = r.properties
           /\ lastAdd' = [result |-> IF r.raised = None THEN "added" ELSE r.raised,
                          name |-> name, flags |-> flags]
    /\ UNCHANGED notPropVars

\* create_interface(): a new builder.
CreateInterface ==
    /\ interface_properties # << >>
    /\ interface_properties' = << >>
    /\ lastAdd' = NoAdd
    /\ UNCHANGED notPropVars

NextProperty ==
    \/ \E name \in PropertyNames, flags \in PropertyFlags : AddProperty(name, flags)
    \/ CreateInterface

InitProperty == InitState(0, 0)

SpecProperty == InitProperty /\ [][NextProperty]_vars

\* ------------------------------------------------------------ member names
LowercaseLetters ==
    <<"a", "b", "c", "d", "e", "f", "g", "h", "i", "j", "k", "l", "m",
      "n", "o", "p", "q", "r", "s", "t", "u", "v", "w", "x", "y", "z">>
UppercaseLetters ==
    <<"A", "B", "C", "D", "E", "F", "G", "H", "I", "J", "K", "L", "M",
      "N", "O", "P", "Q", "R", "S", "T", "U", "V", "W", "X", "Y", "Z">>
Digits == {"0", "1", "2", "3", "4", "5", "6", "7", "8", "9"}
Range(f) == {f[i] : i \in DOMAIN f}

\* str.upper() and str.lower() on one character.
Upper(ch) ==
    IF ch \in Range(LowercaseLetters)
    THEN UppercaseLetters[CHOOSE i \in DOMAIN LowercaseLetters : LowercaseLetters[i] = ch]
    ELSE ch
Lower(ch) ==
    IF ch \in Range(UppercaseLetters)
    THEN LowercaseLetters[CHOOSE i \in DOMAIN UppercaseLetters : UppercaseLetters[i] = ch]
    ELSE ch

\* str.capitalize(): the first character in upper case, the rest in lower.
Capitalize(x) ==
    [i \in DOMAIN x |-> IF i = 1 THEN Upper(x[i]) ELSE Lower(x[i])]

\* str.split("_"): the components between the underscores, empty ones too.
RECURSIVE SplitLoop(_, _, _)
SplitLoop(name, components, current) ==
    IF name = << >> THEN Append(components, current)
    ELSE IF Head(name) = "_"
         THEN SplitLoop(Tail(name), Append(components, current), << >>)
         ELSE SplitLoop(Tail(name), components, Append(current, Head(name)))
Split(name) == SplitLoop(name, << >>, << >>)

RECURSIVE Join(_)
Join(components) ==
    IF components = << >> THEN << >>
    ELSE Head(components) \o Join(Tail(components))

\* DbusMember.dbusify_name
dbusify_name(name) ==
    LET components == Split(name)
    IN  Join([i \in DOMAIN components |-> Capitalize(components[i])])

\* is_member_name_valid of the native module, as name_requirements words it:
\* ASCII letters, digits and underscore, no digit first, no dot, 1 to 255
\* characters.
MaxMemberNameLen == 255
is_member_name_valid(name) ==
    /\ 1 <= Len(name) /\ Len(name) <= MaxMemberNameLen
    /\ name[1] \notin Digits
    /\ \A i \in DOMAIN name :
          name[i] \in Range(LowercaseLetters) \cup Range(UppercaseLetters)
                         \cup Digits \cup {"_"}

\* DbusMember.ensure_name_valid: None, or the assertion error.
ensure_name_valid(name) ==
    IF is_member_name_valid(name) THEN None ELSE "AssertionError: Invalid name"

\* DbusMember._set_name on a member whose _name is `old`.
set_name(old, name) ==
    IF ensure_name_valid(name) # None
    THEN [raised |-> ensure_name_valid(name), name |-> old]
    ELSE [raised |-> None, name |-> Name(name)]

\* DbusMember.__set_name__ with the guard on the member itself.
SetNameGuardsMember(old, owner_has_name, name) ==
    IF old = NoName
    THEN set_name(old, dbusify_name(name))
    ELSE [raised |-> None, name |-> old]

\* DbusMember.__set_name__: the guard asks whether the owner, the class the
\* member is bound in, has an attribute _name.
SetName(old, owner_has_name, name) ==
    IF ~owner_has_name
    THEN set_name(old, dbusify_name(name))
    ELSE [raised |-> None, name |-> old]

\* The names given to members, one of them invalid, and the attribute names
\* members are bound to.
GetAll == <<"G", "e", "t", "A", "l", "l">>
Test == <<"T", "e", "s", "t">>
InvalidMemberName == <<"G", "e", "t", ".", "A", "l", "l">>
ExplicitNames == {GetAll, Test, InvalidMemberName}
properties_get_all ==
    <<"_", "p", "r", "o", "p", "e", "r", "t", "i", "e", "s", "_",
      "g", "e", "t", "_", "a", "l", "l">>
AttributeNames ==
    {properties_get_all,
     <<"g", "e", "t", "_", "a", "l", "l">>,
     <<"t", "e", "s", "t">>,
     <<"_">>}
MaxMembers == 2

\* DbusMember(name): the constructor; with a name, _set_name.  An exception
\* leaves no member.
NewMember(name) ==
    /\ Len(members) < MaxMembers
    /\ LET r == IF name # NoName THEN set_name(NoName, name[1])
                ELSE [raised |-> None, name |-> NoName]
       IN  /\ members' =
                 IF r.raised # None THEN members
                 ELSE Append(members,
                             [name |-> r.name, given |-> name, attr |-> << >>])
           /\ lastBind' = [op |-> "init", result |-> r.raised,
                           member |-> IF r.raised # None THEN 0 ELSE Len(members) + 1,
                           name |-> name, attr |-> << >>, owner_has_name |-> FALSE]
    /\ UNCHANGED notMemVars

\* The class statement binds member m to the attribute attr of the class
\* it creates: type.__new__ calls m.__set_name__(owner, attr).
BindMember(m, attr, owner_has_name) ==
    /\ m \in DOMAIN members
    /\ members[m].attr = << >>
    /\ LET r == SetName(members[m].name, owner_has_name, attr)
       IN  /\ members' =
                 IF r.raised # None THEN members
                 ELSE [members EXCEPT ![m].name = r.name, ![m].attr = attr]
           /\ lastBind' = [op |-> "set_name", result |-> r.raised, member |-> m,
                           name |-> members[m].given, attr |-> attr,
                           owner_has_name |-> owner_has_name]
    /\ UNCHANGED notMemVars

\* The program drops its members and starts over.
ForgetMembers ==
    /\ members # << >>
    /\ members' = << >>
    /\ lastBind' = NoBind
    /\ UNCHANGED notMemVars

NextMember ==
    \/ \E name \in {Name(n) : n \in ExplicitNames} \cup {NoName} : NewMember(name)
    \/ \E m \in 1..MaxMembers, attr \in AttributeNames, owner_has_name \in BOOLEAN :
          BindMember(m, attr, owner_has_name)
    \/ ForgetMembers

InitMember == InitState(0, 0)

SpecMember == InitMember /\ [][NextMember]_vars

\* ------------------------------------------------------ inspect_dbus_path
\* The bus connections of the program; get_default_bus() gives the first.
DefaultBus == "default_bus"
NewBus == "new_bus"
Buses == {DefaultBus, NewBus}
get_default_bus == DefaultBus

TEST_PATH == "/test"
ObjectPaths == {TEST_PATH, ObjectPath}
MaxObjects == 2

\* DbusLocalObjectMeta(): not attached, no path.  `served` is not a field
\* of the meta: it records whether export_to_dbus() has exported the object,
\* "never", "failed" (the call raised on the way), "exported", or "closed"
\* (exported, and the handle closed since).
DbusLocalObjectMeta ==
    [kind |-> "local", attached_bus |-> None, object_path |-> None,
     served |-> "never"]

\* DbusRemoteObjectMeta(service_name, object_path, bus)
DbusRemoteObjectMeta(object_path, bus) ==
    [kind |-> "proxy",
     attached_bus |-> IF bus # None THEN bus ELSE get_default_bus,
     object_path |-> object_path, served |-> "never"]

\* An object that is no DbusInterfaceBase.
NotDbusObject ==
    [kind |-> "other", attached_bus |-> None, object_path |-> None,
     served |-> "never"]

\* _inspect_dbus_path_proxy
InspectDbusPathProxy(dbus_meta, bus) ==
    IF bus # dbus_meta.attached_bus
    THEN [result |-> "LookupError", value |-> "is not attached to bus"]
    ELSE [result |-> "returned", value |-> dbus_meta.object_path]

\* _inspect_dbus_path_local
InspectDbusPathLocal(dbus_meta, bus) ==
    IF dbus_meta.attached_bus = None \/ dbus_meta.object_path = None
    THEN [result |-> "LookupError", value |-> "is not exported to any D-Bus"]
    ELSE IF bus # dbus_meta.attached_bus
         THEN [result |-> "LookupError", value |-> "is not attached to bus"]
         ELSE [result |-> "returned", value |-> dbus_meta.object_path]

\* inspect_dbus_path
inspect_dbus_path(obj, bus_arg) ==
    LET bus == IF bus_arg = None THEN get_default_bus ELSE bus_arg
    IN  IF obj.kind # "other"
        THEN IF obj.kind = "proxy"
             THEN InspectDbusPathProxy(obj, bus)
             ELSE InspectDbusPathLocal(obj, bus)
        ELSE [result |-> "TypeError", value |-> "Expected D-Bus object"]

\* DbusInterface(), or some other object.
NewObject(is_dbus) ==
    /\ Len(objects) < MaxObjects
    /\ objects' = Append(objects, IF is_dbus THEN DbusLocalObjectMeta ELSE NotDbusObject)
    /\ lastInspect' = NoInspect
    /\ UNCHANGED notObjVars

\* new_proxy(service_name, object_path, bus)
NewProxy(object_path, bus) ==
    /\ Len(objects) < MaxObjects
    /\ objects' = Append(objects, DbusRemoteObjectMeta(object_path, bus))
    /\ lastInspect' = NoInspect
    /\ UNCHANGED notObjVars

\* export_to_dbus that gives the meta the bus and the path only once the
\* interfaces are exported.
ExportToDbusThenAttach(dbus_meta, object_path, bus_arg, completes) ==
    IF dbus_meta.kind = "proxy" \/ dbus_meta.attached_bus # None \/ ~completes
    THEN dbus_meta
    ELSE [dbus_meta EXCEPT
            !.attached_bus = IF bus_arg = None THEN get_default_bus ELSE bus_arg,
            !.object_path = object_path,
            !.served = "exported"]

\* export_to_dbus(object_path, bus): RuntimeError for a proxy and for an
\* object that has a bus; otherwise the meta gets the bus and the path, and
\* then the members are appended to new interfaces and these are exported,
\* which completes or raises (an assertion of add_property, an error of the
\* native export).
export_to_dbus(dbus_meta, object_path, bus_arg, completes) ==
    IF dbus_meta.kind = "proxy" \/ dbus_meta.attached_bus # None
    THEN dbus_meta
    ELSE [dbus_meta EXCEPT
            !.attached_bus = IF bus_arg = None THEN get_default_bus ELSE bus_arg,
            !.object_path = object_path,
            !.served = IF completes THEN "exported" ELSE "failed"]

Export(o, object_path, bus, completes) ==
    /\ o \in DOMAIN objects
    /\ objects[o].kind # "other"
    /\ objects' = [objects EXCEPT ![o] = export_to_dbus(@, object_path, bus, completes)]
    /\ lastInspect' = NoInspect
    /\ UNCHANGED notObjVars

\* DbusExportHandle.close(): the exported interfaces are taken off the bus;
\* the meta stays as it is.
CloseHandle(o) ==
    /\ o \in DOMAIN objects
    /\ objects[o].served = "exported"
    /\ objects' = [objects EXCEPT ![o].served = "closed"]
    /\ lastInspect' = NoInspect
    /\ UNCHANGED notObjVars

Inspect(o, bus) ==
    /\ o \in DOMAIN objects
    /\ LET r == inspect_dbus_path(objects[o], bus)
       IN  lastInspect' = [result |-> r.result, value |-> r.value, obj |-> o, bus |-> bus]
    /\ UNCHANGED objects
    /\ UNCHANGED notObjVars

\* The program drops its objects.
ForgetObjects ==
    /\ objects # << >>
    /\ objects' = << >>
    /\ lastInspect' = NoInspect
    /\ UNCHANGED notObjVars

NextObject ==
    \/ \E is_dbus \in BOOLEAN : NewObject(is_dbus)
    \/ \E object_path \in ObjectPaths, bus \in Buses \cup {None} :
          NewProxy(object_path, bus)
    \/ \E o \in 1..MaxObjects, object_path \in ObjectPaths,
          bus \in Buses \cup {None}, completes \in BOOLEAN :
            Export(o, object_path, bus, completes)
    \/ \E o \in 1..MaxObjects : CloseHandle(o)
    \/ \E o \in 1..MaxObjects, bus \in Buses \cup {None} : Inspect(o, bus)
    \/ ForgetObjects

InitObject == InitState(0, 0)

SpecObject == InitObject /\ [][NextObject]_vars

\* ------------------------------------------------------------- wire codec
\* A complete type is a tuple: <<"y">> byte, <<"q">> uint16, <<"u">> uint32,
\* <<"b">> boolean, <<"t">> uint64, <<"s">> string, <<"a", element>> array,
\* <<"r", field, ...>> struct.  A signature is a sequence of complete types.
\* A string is the sequence of its UTF-8 bytes; an array or a struct is the
\* sequence of its elements.  Bytes are 0..255, the byte order is little
\* endian.
BasicTypes == {<<"y">>, <<"q">>, <<"u">>, <<"b">>, <<"t">>, <<"s">>}

\* The natural alignment of a type.
RECURSIVE Alignment(_)
Alignment(type) ==
    CASE type[1] = "y" -> 1
      [] type[1] = "q" -> 2
      [] type[1] \in {"u", "b", "s", "a"} -> 4
      [] type[1] \in {"t", "r"} -> 8

\* The next offset that is a multiple of the alignment.
AlignUp(offset, alignment) == offset + ((alignment - (offset % alignment)) % alignment)

\* The buffer padded with zero bytes up to the alignment.
Pad(buffer, alignment) ==
    buffer \o [i \in 1..(AlignUp(Len(buffer), alignment) - Len(buffer)) |-> 0]

\* An unsigned integer in `width` bytes, least significant first, and back.
RECURSIVE LittleEndian(_, _)
LittleEndian(n, width) ==
    IF width = 0 THEN << >>
    ELSE <<n % 256>> \o LittleEndian(n \div 256, width - 1)

RECURSIVE FromLittleEndian(_)
FromLittleEndian(bytes) ==
    IF bytes = << >> THEN 0
    ELSE Head(bytes) + 256 * FromLittleEndian(Tail(bytes))

FixedWidth(type) ==
    CASE type[1] = "y" -> 1
      [] type[1] = "q" -> 2
      [] type[1] \in {"u", "b"} -> 4
      [] type[1] = "t" -> 8

\* Encode: the buffer with the value appended, each value padded to start
\* at a multiple of its alignment; an array as the u32 byte length of its
\* elements, padding to the element's alignment, and the elements; a string
\* as its u32 length, its bytes and a NUL.
RECURSIVE Marshal(_, _, _)
RECURSIVE MarshalAll(_, _, _)
Marshal(type, value, buffer) ==
    LET start == Pad(buffer, Alignment(type))
    IN  CASE type[1] \in {"y", "q", "u", "t"} ->
                start \o LittleEndian(value, FixedWidth(type))
          [] type[1] = "b" ->
                start \o LittleEndian(IF value THEN 1 ELSE 0, FixedWidth(type))
          [] type[1] = "s" ->
                start \o LittleEndian(Len(value), 4) \o value \o <<0>>
          [] type[1] = "a" ->
                LET first == Pad(start \o LittleEndian(0, 4), Alignment(type[2]))
                    all == MarshalAll([i \in DOMAIN value |-> type[2]], value, first)
                IN  start \o LittleEndian(Len(all) - Len(first), 4)
                          \o SubSeq(all, Len(start) + 5, Len(all))
          [] type[1] = "r" ->
                MarshalAll(Tail(type), value, start)

MarshalAll(types, values, buffer) ==
    IF types = << >> THEN buffer
    ELSE MarshalAll(Tail(types), Tail(values), Marshal(Head(types), Head(values), buffer))

\* Decode of an array that skips to the element's alignment only when the
\* array has elements.
ArrayStartUnlessEmpty(offset, length, alignment) ==
    IF length = 0 THEN offset ELSE AlignUp(offset, alignment)

\* Decode of an array: where its elements start, after the length.
ArrayStart(offset, length, alignment) == AlignUp(offset, alignment)

\* Decode: the value at the offset, and the offset after it.
RECURSIVE Unmarshal(_, _, _)
RECURSIVE UnmarshalAll(_, _, _)
RECURSIVE UnmarshalUntil(_, _, _, _)
Unmarshal(type, bytes, offset) ==
    LET start == AlignUp(offset, Alignment(type))
        Read(from, width) == FromLittleEndian(SubSeq(bytes, from + 1, from + width))
    IN  CASE type[1] \in {"y", "q", "u", "t"} ->
                [value |-> Read(start, FixedWidth(type)),
                 offset |-> start + FixedWidth(type)]
          [] type[1] = "b" ->
                [value |-> Read(start, 4) = 1, offset |-> start + 4]
          [] type[1] = "s" ->
                [value |-> SubSeq(bytes, start + 5, start + 4 + Read(start, 4)),
                 offset |-> start + 4 + Read(start, 4) + 1]
          [] type[1] = "a" ->
                LET length == Read(start, 4)
                    first == ArrayStart(start + 4, length, Alignment(type[2]))
                IN  UnmarshalUntil(type[2], bytes, first, first + length)
          [] type[1] = "r" ->
                UnmarshalAll(Tail(type), bytes, start)

UnmarshalAll(types, bytes, offset) ==
    IF types = << >> THEN [value |-> << >>, offset |-> offset]
    ELSE LET head == Unmarshal(Head(types), bytes, offset)
             rest == UnmarshalAll(Tail(types), bytes, head.offset)
         IN  [value |-> <<head.value>> \o rest.value, offset |-> rest.offset]

\* The elements of an array: until the declared byte length is used up.
UnmarshalUntil(type, bytes, offset, end) ==
    IF offset >= end THEN [value |-> << >>, offset |-> offset]
    ELSE LET head == Unmarshal(type, bytes, offset)
             rest == UnmarshalUntil(type, bytes, head.offset, end)
         IN  [value |-> <<head.value>> \o rest.value, offset |-> rest.offset]

\* The complete types and the values of the messages that are built.
MaxArrayLen == 2
Types ==
    BasicTypes
        \cup {<<"a", b>> : b \in BasicTypes}
        \cup {<<"r", <<"y">>, b>> : b \in BasicTypes}
        \cup {<<"a", <<"r", <<"y">>, <<"t">>>>>>, <<"a", <<"a", <<"q">>>>>>,
              <<"r", <<"y">>, <<"a", <<"t">>>>>>}

RECURSIVE Values(_)
RECURSIVE Tuples(_)
Values(type) ==
    CASE type[1] = "y" -> {0, 255}
      [] type[1] = "q" -> {1, 258}
      [] type[1] = "u" -> {2, 65537}
      [] type[1] = "t" -> {3, 16777221}
      [] type[1] = "b" -> BOOLEAN
      [] type[1] = "s" -> {<< >>, <<104, 105>>}
      [] type[1] = "a" ->
            UNION {[1..n -> Values(type[2])] : n \in 0..MaxArrayLen}
      [] type[1] = "r" -> Tuples(Tail(type))
Tuples(types) ==
    IF types = << >> THEN {<< >>}
    ELSE {<<v>> \o rest : v \in Values(Head(types)), rest \in Tuples(Tail(types))}

\* A message body is one complete type, or a byte and one complete type.
Signatures == {<<type>> : type \in Types} \cup {<<<<"y">>, type>> : type \in Types}

\* new_method_call_message(): a message for the arguments of a call.
NewMessage(signature, args) ==
    /\ codec.stage \in {"none", "read"}
    /\ codec' = [NoCodec EXCEPT !.stage = "new", !.signature = signature,
                                !.args = args]
    /\ UNCHANGED notCodecVars

\* message.append_data(signature, *args)
AppendData ==
    /\ codec.stage = "new"
    /\ codec' = [codec EXCEPT !.stage = "appended",
                              !.bytes = MarshalAll(codec.signature, codec.args, << >>)]
    /\ UNCHANGED notCodecVars

\* message.get_contents() on the other side, against the same signature.
ReadContents ==
    /\ codec.stage = "appended"
    /\ LET r == UnmarshalAll(codec.signature, codec.bytes, 0)
       IN  codec' = [codec EXCEPT !.stage = "read", !.contents = r.value,
                                  !.consumed = r.offset]
    /\ UNCHANGED notCodecVars

NextCodec ==
    \/ \E signature \in Signatures : \E args \in Tuples(signature) :
          NewMessage(signature, args)
    \/ AppendData
    \/ ReadContents

InitCodec == InitState(0, 0)

SpecCodec == InitCodec /\ [][NextCodec]_vars

\* ------------------------------------------------------- building a reply
\* A Python value a callback returns: None, a str, an int, or a tuple of
\* such values.
PyNone == <<"None">>
PyStr == <<"str">>
PyInt == <<"int">>
PyTuple(items) == <<"tuple">> \o items

\* Whether the native append accepts the value for the complete type.
RECURSIVE HasType(_, _)
HasType(value, type) ==
    CASE type[1] = "s" -> value[1] = "str"
      [] type[1] = "u" -> value[1] = "int"
      [] type[1] = "r" ->
            /\ value[1] = "tuple"
            /\ Len(value) = Len(type)
            /\ \A i \in 2..Len(type) : HasType(value[i], type[i])

\* reply.append_data(signature, *args): TypeError unless there is one
\* argument of the right type for every complete type of the signature;
\* otherwise the arguments are the top-level values of the body.
append_data(signature, args) ==
    IF /\ Len(args) = Len(signature)
       /\ \A i \in DOMAIN signature : HasType(args[i], signature[i])
    THEN [raised |-> None, body |-> args, args |-> args]
    ELSE [raised |-> TypeError, body |-> << >>, args |-> args]

\* The reply built without the second attempt.
BuildReplySpreadOnly(result_signature, reply_data) ==
    IF reply_data[1] = "tuple"
    THEN <<append_data(result_signature, Tail(reply_data))>>
    ELSE IF reply_data # PyNone
         THEN <<append_data(result_signature, <<reply_data>>)>>
         ELSE << >>

\* _method_handler, lines 78-88: the append_data calls made for the
\* callback's result, in order.
BuildReply(result_signature, reply_data) ==
    IF reply_data[1] = "tuple"
    THEN LET first == append_data(result_signature, Tail(reply_data))
         IN  IF first.raised = TypeError
             THEN <<first, append_data(result_signature, <<reply_data>>)>>
             ELSE <<first>>
    ELSE IF reply_data # PyNone
         THEN <<append_data(result_signature, <<reply_data>>)>>
         ELSE << >>

\* asyncio.CancelledError: a BaseException that is no Exception.
CancelledError == "CancelledError"
IsException(exc) == exc.cls # CancelledError

\* _method_handler without the test of expect_reply before the error reply.
MethodHandlerAlwaysReplies(result_signature, callback, expect_reply) ==
    LET attempts == IF callback.type = "return" /\ expect_reply
                    THEN BuildReply(result_signature, callback.reply_data)
                    ELSE << >>
        exc == IF callback.type = "raise" THEN callback.exc
               ELSE IF attempts # << >> /\ attempts[Len(attempts)].raised # None
                    THEN OtherException(attempts[Len(attempts)].raised)
                    ELSE NoExc
        error == IF IsMethodCallError(exc) THEN exc
                 ELSE NewMethodError(CallFailedError, None, None)
    IN  IF exc # NoExc /\ ~IsException(exc)
        THEN [attempts |-> attempts, sent |-> << >>, propagated |-> exc.cls]
        ELSE IF exc # NoExc
             THEN [attempts |-> attempts,
                   sent |-> <<[type |-> "error", error_name |-> error.error_name,
                               body |-> << >>]>>,
                   propagated |-> None]
             ELSE IF ~expect_reply
                  THEN [attempts |-> attempts, sent |-> << >>, propagated |-> None]
                  ELSE [attempts |-> attempts,
                        sent |-> <<[type |-> "method_return", error_name |-> None,
                                    body |-> IF attempts = << >> THEN << >>
                                             ELSE attempts[Len(attempts)].body]>>,
                        propagated |-> None]

\* SdBusInterfaceBuilder._method_handler: the append_data calls it makes, the
\* messages it sends, and the exception that leaves it.
method_handler(result_signature, callback, expect_reply) ==
    LET attempts == IF callback.type = "return" /\ expect_reply
                    THEN BuildReply(result_signature, callback.reply_data)
                    ELSE << >>
        exc == IF callback.type = "raise" THEN callback.exc
               ELSE IF attempts # << >> /\ attempts[Len(attempts)].raised # None
                    THEN OtherException(attempts[Len(attempts)].raised)
                    ELSE NoExc
        error == IF IsMethodCallError(exc) THEN exc
                 ELSE NewMethodError(CallFailedError, None, None)
    IN  IF exc # NoExc /\ ~IsException(exc)
        THEN [attempts |-> attempts, sent |-> << >>, propagated |-> exc.cls]
        ELSE IF ~expect_reply
             THEN [attempts |-> attempts, sent |-> << >>, propagated |-> None]
             ELSE IF exc # NoExc
                  THEN [attempts |-> attempts,
                        sent |-> <<[type |-> "error", error_name |-> error.error_name,
                                    body |-> << >>]>>,
                        propagated |-> None]
                  ELSE [attempts |-> attempts,
                        sent |-> <<[type |-> "method_return", error_name |-> None,
                                    body |-> IF attempts = << >> THEN << >>
                                             ELSE attempts[Len(attempts)].body]>>,
                        propagated |-> None]

\* The result signatures of the exported methods: "", "s", "u", "su", "(su)".
ResultSignatures ==
    {<< >>, <<<<"s">>>>, <<<<"u">>>>, <<<<"s">>, <<"u">>>>,
     <<<<"r", <<"s">>, <<"u">>>>>>}

\* What the callbacks return: None, "a", 1, (), ("a",), (1,), ("a", 1),
\* (("a", 1),).
ReplyData ==
    {PyNone, PyStr, PyInt, PyTuple(<< >>), PyTuple(<<PyStr>>), PyTuple(<<PyInt>>),
     PyTuple(<<PyStr, PyInt>>), PyTuple(<<PyTuple(<<PyStr, PyInt>>)>>)}

\* How a callback ends: it returns, or raises a method error, another
\* Exception, or is cancelled.
Callbacks ==
    {[type |-> "return", reply_data |-> d, exc |-> NoExc] : d \in ReplyData}
    \cup {[type |-> "raise", reply_data |-> PyNone, exc |-> e] :
            e \in {NewMethodError(DbusDeriveMethodError, None, None),
                   OtherException(IndependentError),
                   OtherException(CancelledError)}}

\* The loop runs _method_handler for a method call.
HandleMethodCall(result_signature, callback, expect_reply) ==
    /\ LET r == method_handler(result_signature, callback, expect_reply)
       IN  lastHandled' =
              [ran |-> TRUE, expect_reply |-> expect_reply,
               result_signature |-> result_signature, callback |-> callback,
               attempts |-> r.attempts, sent |-> r.sent, propagated |-> r.propagated]
    /\ UNCHANGED notReplyVars

NextReply ==
    \E result_signature \in ResultSignatures, callback \in Callbacks,
       expect_reply \in BOOLEAN :
         HandleMethodCall(result_signature, callback, expect_reply)

InitReply == InitState(0, 0)

SpecReply == InitReply /\ [][NextReply]_vars

\* ------------------------------------------------------- the export handle
MaxItems == 3

\* The sequence in reverse order.
Reverse(seq) == [i \in 1..Len(seq) |-> seq[Len(seq) + 1 - i]]

\* close() that walks the items from the last to the first and keeps the
\* list.
RECURSIVE CloseKeepsItems(_)
CloseKeepsItems(its) ==
    IF its = << >>
    THEN [items |-> << >>, closed |-> << >>, raised |-> FALSE]
    ELSE LET item == its[Len(its)]
             rest == SubSeq(its, 1, Len(its) - 1)
         IN  IF item.raises
             THEN [items |-> its, closed |-> <<item.id>>, raised |-> TRUE]
             ELSE LET r == CloseKeepsItems(rest)
                  IN  [items |-> its, closed |-> <<item.id>> \o r.closed,
                       raised |-> r.raised]

\* DbusExportHandle.close: `while self._items: self._items.pop().close()`.
\* An item whose close() raises is already popped; the loop ends there.
RECURSIVE handle_close(_)
handle_close(its) ==
    IF its = << >>
    THEN [items |-> << >>, closed |-> << >>, raised |-> FALSE]
    ELSE LET item == its[Len(its)]
             rest == SubSeq(its, 1, Len(its) - 1)
         IN  IF item.raises
             THEN [items |-> rest, closed |-> <<item.id>>, raised |-> TRUE]
             ELSE LET r == handle_close(rest)
                  IN  [items |-> r.items, closed |-> <<item.id>> \o r.closed,
                       raised |-> r.raised]

\* handle.append(item): one more registration; its close() returns or raises.
HandleAppend(raises) ==
    /\ registered < MaxItems
    /\ registered' = registered + 1
    /\ handle_items' = Append(handle_items, [id |-> registered + 1, raises |-> raises])
    /\ UNCHANGED <<closedItems, lastClose>>
    /\ UNCHANGED notHandleVars

\* close(), its alias stop(), and __exit__ / __aexit__, which call close().
HandleClose(by) ==
    /\ LET r == handle_close(handle_items)
       IN  /\ handle_items' = r.items
           /\ closedItems' = closedItems \o r.closed
           /\ lastClose' = [by |-> by, before |-> handle_items, closed |-> r.closed,
                            after |-> r.items, returned |-> ~r.raised]
    /\ UNCHANGED registered
    /\ UNCHANGED notHandleVars

Closers == {"close", "stop", "__exit__", "__aexit__"}

NextHandle ==
    \/ \E raises \in BOOLEAN : HandleAppend(raises)
    \/ \E by \in Closers : HandleClose(by)

InitHandle == InitState(0, 0)

SpecHandle == InitHandle /\ [][NextHandle]_vars

\* ------------------------------------------------------- method middlewares
MaxMiddlewares == 3
MaxNextCalls == 2

MiddlewareIds == 1..MaxMiddlewares

\* What runs during a call: a middleware is entered or left, or the wrapped
\* method runs.
Enter(m) == [event |-> "enter", middleware |-> m]
Leave(m) == [event |-> "leave", middleware |-> m]
Func == [event |-> "func", middleware |-> 0]

RECURSIVE call_with_middlewares(_, _)
RECURSIVE call_next(_, _, _)
RECURSIVE CallNextOnCopy(_, _, _)

\* call_next that hands a copy of the remaining list to every invocation.
CallNextOnCopy(middlewares, next_calls, times) ==
    IF times = 0
    THEN [middlewares |-> middlewares, trace |-> << >>]
    ELSE LET r == call_with_middlewares(middlewares, next_calls)
             rest == CallNextOnCopy(middlewares, next_calls, times - 1)
         IN  [middlewares |-> rest.middlewares, trace |-> r.trace \o rest.trace]

\* The middleware calls call_next `times` times, one after the other.  The
\* closure holds the list object itself, so each invocation goes on with
\* what the one before left of the list.
call_next(middlewares, next_calls, times) ==
    IF times = 0
    THEN [middlewares |-> middlewares, trace |-> << >>]
    ELSE LET r == call_with_middlewares(middlewares, next_calls)
             rest == call_next(r.middlewares, next_calls, times - 1)
         IN  [middlewares |-> rest.middlewares, trace |-> r.trace \o rest.trace]

\* call_with_middlewares(func, middlewares, *args): what is left of the
\* list object when the call returns, and what ran.  next_calls[m] is the
\* number of times middleware m calls its next step.
call_with_middlewares(middlewares, next_calls) ==
    IF middlewares = << >>
    THEN [middlewares |-> middlewares, trace |-> <<Func>>]
    ELSE LET middleware == middlewares[Len(middlewares)]
             popped == SubSeq(middlewares, 1, Len(middlewares) - 1)
             r == call_next(popped, next_calls, next_calls[middleware])
         IN  [middlewares |-> r.middlewares,
              trace |-> <<Enter(middleware)>> \o r.trace \o <<Leave(middleware)>>]

\* __call__ that passes the registered list itself.
CallOnRegisteredList(dbus_middlewares, next_calls) ==
    LET r == call_with_middlewares(dbus_middlewares, next_calls)
    IN  [registered |-> r.middlewares, trace |-> r.trace]

\* DbusProxyMethod.__call__ and DbusLocalMethod._handle_dbus_call: the call
\* works on a copy of the registered list.
call_on_copy(dbus_middlewares, next_calls) ==
    LET r == call_with_middlewares(dbus_middlewares, next_calls)
    IN  [registered |-> dbus_middlewares, trace |-> r.trace]

\* to_dbus_middlewares.append(m) / from_dbus_middlewares.append(m)
RegisterMiddleware(direction, m) ==
    /\ \A i \in DOMAIN registered_middlewares[direction] :
           registered_middlewares[direction][i] # m
    /\ registered_middlewares' =
           [registered_middlewares EXCEPT ![direction] = Append(@, m)]
    /\ UNCHANGED lastCall
    /\ UNCHANGED notMiddlewareVars

\* A call of the method through a proxy (to_dbus) or from the bus
\* (from_dbus).
CallThroughMiddlewares(direction, next_calls) ==
    /\ LET r == call_on_copy(registered_middlewares[direction], next_calls)
       IN  /\ registered_middlewares' =
                  [registered_middlewares EXCEPT ![direction] = r.registered]
           /\ lastCall' = [direction |-> direction,
                           chain |-> registered_middlewares[direction],
                           next_calls |-> next_calls, trace |-> r.trace]
    /\ UNCHANGED notMiddlewareVars

NextMiddleware ==
    \/ \E direction \in Directions, m \in MiddlewareIds :
           RegisterMiddleware(direction, m)
    \/ \E direction \in Directions,
          next_calls \in [MiddlewareIds -> 0..MaxNextCalls] :
           CallThroughMiddlewares(direction, next_calls)

InitMiddleware == InitState(0, 0)

SpecMiddleware == InitMiddleware /\ [][NextMiddleware]_vars

\* ------------------------------------ one signal, several local objects
\* The local objects: instances of the one interface class that declares
\* the signal.
MaxInstances == 2
Instances == 1..MaxInstances
MaxEmits == 2

\* The callbacks emit() would call if each object had its own set.
CallbacksOfObject(obj) ==
    {s \in signal_local_callbacks : catchers[s].object = obj}

\* DbusLocalSignal(dbus_signal, obj._dbus).dbus_signal.local_callbacks:
\* DbusSignal.__get__ hands every bound signal the one DbusSignal of the
\* class, and the set was made in its __init__.
bound_local_callbacks(obj) == signal_local_callbacks

\* DbusLocalSignal.catch on the signal of obj, up to `await new_queue.get()`:
\* a new queue, its put_nowait added to the callbacks.
LocalCatch(s, obj) ==
    /\ catchers[s].state = "none"
    /\ catchers' = [catchers EXCEPT ![s] =
                       [object |-> obj, queue |-> << >>, state |-> "waiting"]]
    /\ signal_local_callbacks' = signal_local_callbacks \cup {s}
    /\ UNCHANGED notInstanceVars

\* The generator gets the next item of its queue and yields it.
LocalNext(s) ==
    /\ catchers[s].state = "waiting"
    /\ catchers[s].queue # << >>
    /\ catchers' = [catchers EXCEPT ![s].queue = Tail(@)]
    /\ UNCHANGED signal_local_callbacks
    /\ UNCHANGED notInstanceVars

\* The generator is closed: the finally clause removes the callback.
LocalStop(s) ==
    /\ catchers[s].state = "waiting"
    /\ catchers' = [catchers EXCEPT ![s].state = "closed"]
    /\ signal_local_callbacks' = signal_local_callbacks \ {s}
    /\ UNCHANGED notInstanceVars

\* DbusLocalSignal.emit(args) on the signal of obj: every callback of the
\* set gets the arguments.  An item remembers the object it was emitted on.
LocalEmit(obj, args) ==
    /\ \A s \in CatcherIds : Len(catchers[s].queue) < MaxEmits
    /\ catchers' =
           [s \in CatcherIds |->
               IF s \in bound_local_callbacks(obj)
               THEN [catchers[s] EXCEPT
                        !.queue = Append(@, [args |-> args, emitted_on |-> obj])]
               ELSE catchers[s]]
    /\ UNCHANGED signal_local_callbacks
    /\ UNCHANGED notInstanceVars

SignalArgs == {"a", "b"}

NextInstance ==
    \/ \E s \in CatcherIds, obj \in Instances : LocalCatch(s, obj)
    \/ \E s \in CatcherIds : LocalNext(s)
    \/ \E s \in CatcherIds : LocalStop(s)
    \/ \E obj \in Instances, args \in SignalArgs : LocalEmit(obj, args)

InitInstance == InitState(0, 0)

SpecInstance == InitInstance /\ [][NextInstance]_vars

\* ------------------------------------------------ setting a local property
RuntimeError == "RuntimeError"
PropertyName == "Value"
PropertyValues == {"x", "y", "z"}

\* What a set does, in order: the setter runs with a value, or
\* properties_changed.emit is called with (interface name, {property name:
\* (signature, value)}, []).
SetterRan(value) ==
    [event |-> "setter", interface_name |-> None, property_name |-> None,
     value |-> value]
PropertiesChanged(interface_name, property_name, value) ==
    [event |-> "emit", interface_name |-> interface_name,
     property_name |-> property_name, value |-> value]

\* A set that announces the change whether or not the setter raised.
LocalSetAlwaysEmits(has_setter, alive, has_properties_changed, setter_raises, value) ==
    IF ~has_setter \/ ~alive
    THEN [raised |-> RuntimeError, events |-> << >>]
    ELSE [raised |-> IF setter_raises THEN IndependentError ELSE None,
          events |-> <<SetterRan(value)>> \o
                     IF has_properties_changed
                     THEN <<PropertiesChanged(InterfaceName, PropertyName, value)>>
                     ELSE << >>]

\* DbusLocalProperty.set and _dbus_reply_set after the value is read: no
\* setter or no object left is a RuntimeError; the setter runs; then, if the
\* object has an attribute properties_changed, its emit is called.
local_set(has_setter, alive, has_properties_changed, setter_raises, value) ==
    IF ~has_setter \/ ~alive
    THEN [raised |-> RuntimeError, events |-> << >>]
    ELSE IF setter_raises
         THEN [raised |-> IndependentError, events |-> <<SetterRan(value)>>]
         ELSE [raised |-> None,
               events |-> <<SetterRan(value)>> \o
                          IF has_properties_changed
                          THEN <<PropertiesChanged(InterfaceName, PropertyName, value)>>
                          ELSE << >>]

\* await obj.prop.set(value), or a Set call from the bus, which the
\* interface only accepts for a property that has a setter.
SetLocalProperty(via, has_setter, alive, has_properties_changed, setter_raises, value) ==
    /\ via = "_dbus_reply_set" => has_setter
    /\ setter_raises => has_setter
    /\ LET r == local_set(has_setter, alive, has_properties_changed,
                          setter_raises, value)
       IN  /\ lastSet' = [via |-> via, has_setter |-> has_setter, alive |-> alive,
                          has_properties_changed |-> has_properties_changed,
                          setter_raises |-> setter_raises, value |-> value,
                          raised |-> r.raised, events |-> r.events]
           /\ stored' = IF r.raised = None THEN value ELSE stored
    /\ UNCHANGED notSetterVars

NextSetter ==
    \E via \in {"set", "_dbus_reply_set"},
       has_setter, alive, has_properties_changed, setter_raises \in BOOLEAN,
       value \in PropertyValues :
         SetLocalProperty(via, has_setter, alive, has_properties_changed,
                          setter_raises, value)

InitSetter == InitState(0, 0)

SpecSetter == InitSetter /\ [][NextSetter]_vars

\* ---------------------------------------------------- the object manager
KeyError == "KeyError"
ExportError == "ExportError"

\* export_to_dbus that refuses only proxies.
ExportRaisesProxyOnly(dbus_meta, completes) ==
    IF dbus_meta.kind = "proxy" THEN RuntimeError
    ELSE IF ~completes THEN ExportError
         ELSE None

\* DbusInterface.export_to_dbus: what it raises.  RuntimeError for a proxy
\* and for an object that has a bus; what the export of the interfaces
\* raises when that does not complete.
export_raises(dbus_meta, completes) ==
    IF dbus_meta.kind = "proxy" \/ dbus_meta.attached_bus # None THEN RuntimeError
    ELSE IF ~completes THEN ExportError
         ELSE None

\* emit_object_added(path) / emit_object_removed(path)
ObjectAdded(path) == [event |-> "added", path |-> path]
ObjectRemoved(path) == [event |-> "removed", path |-> path]

\* remove_managed_object that leaves the entry in the table.
RemoveManagedObjectKeepsEntry(o) ==
    IF dbus_metas[ManagerId].attached_bus = None
    THEN [raised |-> RuntimeError, table |-> managed_object_to_path,
          announced |-> announced]
    ELSE IF managed_object_to_path[o] = None
         THEN [raised |-> KeyError, table |-> managed_object_to_path,
               announced |-> announced]
         ELSE [raised |-> None, table |-> managed_object_to_path,
               announced |-> Append(announced, ObjectRemoved(managed_object_to_path[o]))]

\* DbusObjectManagerInterface.remove_managed_object(managed_object)
remove_managed_object(o) ==
    IF dbus_metas[ManagerId].attached_bus = None
    THEN [raised |-> RuntimeError, table |-> managed_object_to_path,
          announced |-> announced]
    ELSE IF managed_object_to_path[o] = None
         THEN [raised |-> KeyError, table |-> managed_object_to_path,
               announced |-> announced]
         ELSE [raised |-> None,
               table |-> [managed_object_to_path EXCEPT ![o] = None],
               announced |-> Append(announced, ObjectRemoved(managed_object_to_path[o]))]

\* DbusInterface() / DbusObjectManagerInterface()
CreateLocal(o) ==
    /\ dbus_metas[o].kind = "none"
    /\ dbus_metas' = [dbus_metas EXCEPT ![o] = DbusLocalObjectMeta]
    /\ UNCHANGED <<object_manager_slot, managed_object_to_path, export_handles,
                   export_count, announced, lastExport>>
    /\ UNCHANGED notManagerVars

\* cls.new_proxy(service_name, object_path, bus)
CreateProxy(o, object_path, bus) ==
    /\ o # ManagerId
    /\ dbus_metas[o].kind = "none"
    /\ dbus_metas' = [dbus_metas EXCEPT ![o] = DbusRemoteObjectMeta(object_path, bus)]
    /\ UNCHANGED <<object_manager_slot, managed_object_to_path, export_handles,
                   export_count, announced, lastExport>>
    /\ UNCHANGED notManagerVars

\* What every export does to the meta, the count of exports and the record
\* of the last operation.
Exported(op, o, object_path, bus, completes, raised) ==
    /\ dbus_metas' =
          [dbus_metas EXCEPT ![o] =
              IF raised = RuntimeError THEN @
              ELSE export_to_dbus(@, object_path, bus, completes)]
    /\ export_count' =
          [export_count EXCEPT ![o] = IF raised = None THEN @ + 1 ELSE @]
    /\ lastExport' = [op |-> op, obj |-> o, raised |-> raised,
                      before |-> dbus_metas[o],
                      entry |-> managed_object_to_path[o]]

\* obj.export_to_dbus(object_path, bus) on an object that is no manager.
ExportObject(o, object_path, bus, completes) ==
    /\ o # ManagerId
    /\ dbus_metas[o].kind # "none"
    /\ LET raised == export_raises(dbus_metas[o], completes)
       IN  /\ Exported("export_to_dbus", o, object_path, bus, completes, raised)
           /\ export_handles' =
                 IF raised # None THEN export_handles
                 ELSE [export_handles EXCEPT ![o] =
                          [state |-> "open", items |-> <<"interfaces">>,
                           via_manager |-> FALSE, removals |-> 0]]
    /\ UNCHANGED <<object_manager_slot, managed_object_to_path, announced>>
    /\ UNCHANGED notManagerVars

\* DbusObjectManagerInterface.export_to_dbus(object_path, bus)
ExportManager(object_path, bus, completes) ==
    /\ dbus_metas[ManagerId].kind # "none"
    /\ LET raised == export_raises(dbus_metas[ManagerId], completes)
       IN  /\ Exported("export_to_dbus", ManagerId, object_path, bus, completes, raised)
           /\ object_manager_slot' =
                 IF raised # None THEN object_manager_slot ELSE "slot"
           /\ export_handles' =
                 IF raised # None THEN export_handles
                 ELSE [export_handles EXCEPT ![ManagerId] =
                          [state |-> "open",
                           items |-> <<"interfaces", "object_manager_slot">>,
                           via_manager |-> FALSE, removals |-> 0]]
    /\ UNCHANGED <<managed_object_to_path, announced>>
    /\ UNCHANGED notManagerVars

\* manager.export_with_manager(object_path, object_to_export, bus)
ExportWithManager(o, object_path, bus, completes) ==
    /\ o # ManagerId
    /\ dbus_metas[ManagerId].kind # "none"
    /\ dbus_metas[o].kind # "none"
    /\ LET raised == IF object_manager_slot = None THEN RuntimeError
                     ELSE export_raises(dbus_metas[o], completes)
       IN  /\ Exported("export_with_manager", o, object_path, bus, completes, raised)
           /\ export_handles' =
                 IF raised # None THEN export_handles
                 ELSE [export_handles EXCEPT ![o] =
                          [state |-> "open",
                           items |-> <<"interfaces", "remove_managed">>,
                           via_manager |-> TRUE, removals |-> 0]]
           /\ announced' =
                 IF raised # None THEN announced
                 ELSE Append(announced, ObjectAdded(object_path))
           /\ managed_object_to_path' =
                 IF raised # None THEN managed_object_to_path
                 ELSE [managed_object_to_path EXCEPT ![o] = object_path]
    /\ UNCHANGED object_manager_slot
    /\ UNCHANGED notManagerVars

\* handle.close() on the handle an export of o returned: the items are
\* closed from the last to the first.  The item export_with_manager
\* appended calls remove_managed_object(o); closing the interfaces takes
\* the object off the bus.
CloseExportHandle(o) ==
    /\ export_handles[o].state # "none"
    /\ LET removal == remove_managed_object(o)
           its == [i \in DOMAIN export_handles[o].items |->
                      [id |-> export_handles[o].items[i],
                       raises |-> /\ export_handles[o].items[i] = "remove_managed"
                                  /\ removal.raised # None]]
           r == handle_close(its)
           ran(id) == \E i \in DOMAIN r.closed : r.closed[i] = id
           removed == ran("remove_managed") /\ removal.raised = None
       IN  /\ export_handles' =
                 [export_handles EXCEPT
                     ![o].state = "closed",
                     ![o].items = [i \in DOMAIN r.items |-> r.items[i].id],
                     ![o].removals = IF removed THEN @ + 1 ELSE @]
           /\ managed_object_to_path' =
                 IF removed THEN removal.table ELSE managed_object_to_path
           /\ announced' = IF removed THEN removal.announced ELSE announced
           /\ dbus_metas' =
                 IF ran("interfaces") /\ ~r.raised
                 THEN [dbus_metas EXCEPT ![o].served = "closed"]
                 ELSE dbus_metas
           /\ lastExport' = [op |-> "close", obj |-> o,
                             raised |-> IF r.raised THEN removal.raised ELSE None,
                             before |-> dbus_metas[o],
                             entry |-> managed_object_to_path[o]]
    /\ UNCHANGED <<object_manager_slot, export_count>>
    /\ UNCHANGED notManagerVars

\* manager.remove_managed_object(o), called by the program itself.
RemoveManagedObject(o) ==
    /\ o # ManagerId
    /\ dbus_metas[ManagerId].kind # "none"
    /\ dbus_metas[o].kind # "none"
    /\ LET removal == remove_managed_object(o)
       IN  /\ managed_object_to_path' = removal.table
           /\ announced' = removal.announced
           /\ lastExport' = [op |-> "remove_managed_object", obj |-> o,
                             raised |-> removal.raised, before |-> dbus_metas[o],
                             entry |-> managed_object_to_path[o]]
    /\ UNCHANGED <<dbus_metas, object_manager_slot, export_handles, export_count>>
    /\ UNCHANGED notManagerVars

NextManager ==
    \/ \E o \in ObjectIds : CreateLocal(o)
    \/ \E o \in ObjectIds : CreateProxy(o, TEST_PATH, None)
    \/ \E o \in ObjectIds, object_path \in ObjectPaths, completes \in BOOLEAN :
          ExportObject(o, object_path, None, completes)
    \/ \E object_path \in ObjectPaths, bus \in Buses \cup {None},
          completes \in BOOLEAN :
            ExportManager(object_path, bus, completes)
    \/ \E o \in ObjectIds, object_path \in ObjectPaths, bus \in Buses \cup {None},
          completes \in BOOLEAN :
            ExportWithManager(o, object_path, bus, completes)
    \/ \E o \in ObjectIds : CloseExportHandle(o)
    \/ \E o \in ObjectIds : RemoveManagedObject(o)

InitManager == InitState(0, 0)

SpecManager == InitManager /\ [][NextManager]_vars

\* ------------------------------------------------------------- properties

\* The calls that were registered in the pending-call table and are over.
Settled(call) ==
    /\ call.state \in {"returned", "raised", "cancelled"}
    /\ ~call.no_reply
    /\ call.serial # 0

\* C1: when a method handler, a property getter or a property setter ends
\* with an exception that is no method error, the reply on the wire is the
\* Failed error and the caller's call raises exactly DbusFailedError.
C1_NonMethodErrorBecomesFailed ==
    \A c \in CallIds :
        LET call == calls[c]
        IN  (call.raised # NoExc /\ ~IsMethodCallError(call.raised) /\ ~call.no_reply) =>
                /\ call.state = "pending" =>
                       \E r \in replies : /\ r.reply_serial = call.serial
                                          /\ r.error.name = FailedName
                /\ \A r \in replies :
                       r.reply_serial = call.serial => r.error.name = FailedName
                /\ call.reply # NoReply =>
                       /\ call.state = "raised"
                       /\ call.exc.cls = CallFailedError
                       /\ call.exc.error_name = FailedName
                       /\ call.exc.cls # call.raised.cls

\* A method handler raised IndependentError and the caller got DbusFailedError.
C1_Witness ==
    \E c \in CallIds :
        /\ calls[c].kind = "method"
        /\ calls[c].raised.cls = IndependentError
        /\ calls[c].state = "raised"
        /\ calls[c].exc.cls = CallFailedError

\* C2: a call that gets an error reply raises instead of returning; the
\* exception's class is the one registered under the reply's error name, the
\* base class when none is; its error_name and message are the reply's; so a
\* handler that raised a registered subclass gives the caller that subclass.
C2_ErrorReplyRaisesByName ==
    [][\A c \in CallIds :
          (/\ calls[c].reply = NoReply
           /\ calls'[c].reply # NoReply
           /\ calls'[c].reply.error # NoError) =>
              LET e == calls'[c].reply.error
                  x == calls'[c].exc
              IN  /\ calls'[c].state = "raised"
                  /\ calls'[c].result = None
                  /\ x.cls = IF e.name \in DOMAIN subclasses
                             THEN subclasses[e.name]
                             ELSE MethodCallError
                  /\ x.error_name = e.name
                  /\ x.error_message = e.message
                  /\ calls'[c].raised.cls \in RegisteredClasses =>
                         x.cls = calls'[c].raised.cls]_vars

\* The handler raised the registered DbusDeriveMethodError and the caller got it.
C2_Witness ==
    \E c \in CallIds :
        /\ calls[c].raised.cls = DbusDeriveMethodError
        /\ calls[c].state = "raised"
        /\ calls[c].exc.cls = DbusDeriveMethodError
        /\ calls[c].exc.error_name = DeriveMethodErrorName

\* C3: a reply settles the call registered under its reply_serial and no
\* other: every other pending call stays as it is and stays registered, and a
\* reply without an entry changes no call, no entry and not the connection.
C3_ReplyResolvesOnlyItsCall ==
    [][lastEvent'.type \in {"reply", "stray_reply"} =>
          LET s == lastEvent'.serial
          IN  /\ \A c \in CallIds :
                     (calls[c].state = "pending" /\ calls[c].serial # s) =>
                         /\ calls'[c] = calls[c]
                         /\ calls[c].serial \in DOMAIN pending'
              /\ s \in DOMAIN pending =>
                     /\ calls'[pending[s]].state \in {"returned", "raised"}
                     /\ s \notin DOMAIN pending'
              /\ s \notin DOMAIN pending =>
                     /\ calls' = calls
                     /\ pending' = pending
                     /\ connState' = connState]_vars

\* A reply has just settled one call while another is still pending.
C3_Witness ==
    /\ lastEvent.type = "reply"
    /\ \E c, d \in CallIds :
           /\ c # d
           /\ calls[c].serial = lastEvent.serial
           /\ calls[c].reply # NoReply
           /\ calls[c].state \in {"returned", "raised"}
           /\ calls[d].state = "pending"

\* C4: the waiter of a call is completed at most once, and exactly once when
\* the call is over; a call is in the table exactly while it is pending, so
\* after a reply or a cancellation the other of the two finds nothing.
C4_ResolvedExactlyOnce ==
    \A c \in CallIds :
        LET call == calls[c]
        IN  /\ call.resolved <= 1
            /\ call.state = "pending" =>
                   /\ call.resolved = 0
                   /\ call.serial \in DOMAIN pending
                   /\ pending[call.serial] = c
            /\ call.state # "pending" => \A s \in DOMAIN pending : pending[s] # c
            /\ Settled(call) => call.resolved = 1

\* The reply to a call arrived after its caller had given up.
C4_Witness ==
    /\ lastEvent.type = "reply"
    /\ \E c \in CallIds :
           /\ calls[c].state = "cancelled"
           /\ calls[c].serial = lastEvent.serial
           /\ calls[c].resolved = 1

\* C5: a close or a loss of the connection leaves it closed, fails every call
\* that was pending with the disconnect error, and leaves no call pending.
C5_DisconnectFailsAllPending ==
    [][lastEvent'.type \in {"close", "lost"} =>
          /\ connState' = "closed"
          /\ \A c \in CallIds :
                 calls[c].state = "pending" =>
                     /\ calls'[c].state = "raised"
                     /\ calls'[c].exc = DisconnectedError
                     /\ calls'[c].resolved = 1
          /\ \A c \in CallIds : calls'[c].state # "pending"
          /\ pending' = << >>]_vars

\* The connection was lost with every call of the run outstanding.
C5_Witness ==
    /\ connState = "closed"
    /\ lastEvent.type = "lost"
    /\ \A c \in CallIds :
           /\ calls[c].state = "raised"
           /\ calls[c].exc = DisconnectedError
           /\ calls[c].resolved = 1
           /\ calls[c].handled = "none"

C7_DeliveredIffFiltersMatch ==
    [][dispatched' # dispatched =>
         LET message == Head(sigInbound) IN
         \A s \in SubIds :
            LET f == subs[s].filters
                wanted == /\ subs[s].state = "subscribed"
                          /\ f.sender = None \/ f.sender = message.sender
                          /\ f.path = None \/ f.path = message.path
                          /\ f.interface = None \/ f.interface = message.interface
                          /\ f.member = None \/ f.member = message.member
            IN subs'[s].queue = IF wanted
                                THEN Append(subs[s].queue, message)
                                ELSE subs[s].queue]_vars

\* A subscription that set only its interface filter has seen two signals
\* dispatched and received the one of its interface, not the other.
C7_Witness ==
    \E s \in SubIds :
        /\ subs[s].state = "subscribed"
        /\ subs[s].filters = Filters(None, None, "org.example.Foo", None)
        /\ subs[s].since = 0
        /\ Len(dispatched) = 2
        /\ dispatched[1].interface = "org.example.Foo"
        /\ dispatched[2].interface = "org.example.Bar"
        /\ subs[s].queue = <<dispatched[1]>>

\* C8: handing a signal over never waits for a consumer: an emit and a
\* dispatch are possible whatever the subscribers' queues hold, and each puts
\* the signal at the end of the queue of every registered subscriber, however
\* many signals that subscriber or another one has left unconsumed.
C8_HandOffNeverBlocks ==
    /\ [](/\ sigInbound # << >> => ENABLED Dispatch
          /\ Len(emitted) < MaxSignals =>
                ENABLED (\E order \in Orders(local_callbacks) : Emit(FALSE, order)))
    /\ [][/\ emitted' # emitted =>
               \A s \in local_callbacks :
                   subs'[s].queue = Append(subs[s].queue, Len(emitted) + 1)
          /\ dispatched' # dispatched =>
               \A s \in DOMAIN slots :
                   Matches(slots[s].rule, Head(sigInbound)) =>
                       subs'[s].queue = Append(subs[s].queue, Head(sigInbound))]_vars

\* A signal has just been handed over while one subscriber has consumed
\* nothing of three signals and another one has consumed all but the last.
C8_Witness ==
    /\ lastEvent.type \in {"emit", "dispatch"}
    /\ \E s, t \in SubIds :
        /\ s # t
        /\ subs[s].got = << >>
        /\ Len(subs[s].queue) = 3
        /\ subs[t].got = <<1, 2>>
        /\ Len(subs[t].queue) = 1

\* The signals a subscriber's registration has been there for: the ones
\* emitted (local) or dispatched (proxy) after it registered and before its
\* registration was removed.
Due(sub) ==
    LET log == IF sub.kind = "local"
               THEN emitted
               ELSE [i \in 1..Len(dispatched) |-> GetContents(dispatched[i])]
    IN SubSeq(log, sub.since + 1,
              IF sub.state = "closed" THEN sub.until ELSE Len(log))

\* What a subscriber has been given: what it has consumed and what waits in
\* its queue.
Received(sub) ==
    sub.got \o [i \in 1..Len(sub.queue) |-> Yielded(sub, sub.queue[i])]

\* C9: a subscriber has received every signal emitted while it was
\* registered, in the order of emission and each once: what it has consumed
\* followed by what waits in its queue is exactly that sequence.
C9_EverySubscriberInOrderOnce ==
    \A s \in SubIds : subs[s].registered => Received(subs[s]) = Due(subs[s])

\* Two local subscribers, one registered from the start and one after the
\* first signal, have received three and two signals.
C9_Witness ==
    \E s, t \in SubIds :
        /\ subs[s].kind = "local" /\ subs[t].kind = "local"
        /\ subs[s].since = 0 /\ subs[t].since = 1
        /\ Received(subs[s]) = <<1, 2, 3>>
        /\ Received(subs[t]) = <<2, 3>>

\* C10: the step that ends a subscription's generator removes its
\* registration, once if it had registered and not at all if it never had;
\* from then on it is in neither local_callbacks nor the match slots, its
\* registration is not removed again and nothing more is put on its queue.
C10_RegistrationRemovedOnce ==
    [][\A s \in SubIds :
         /\ (subs[s].state # "closed" /\ subs'[s].state = "closed") =>
               /\ subs'[s].removals = IF subs[s].registered THEN 1 ELSE 0
               /\ s \notin local_callbacks'
               /\ s \notin DOMAIN slots'
         /\ subs[s].state = "closed" =>
               /\ subs'[s].queue = subs[s].queue
               /\ subs'[s].removals = subs[s].removals
               /\ s \notin local_callbacks'
               /\ s \notin DOMAIN slots']_vars

\* A local and a proxy subscription have ended, each registration was removed
\* once, and a signal emitted and dispatched after that reached neither.
C10_Witness ==
    \E s, t \in SubIds :
        /\ subs[s].kind = "local" /\ subs[t].kind = "proxy"
        /\ subs[s].state = "closed" /\ subs[t].state = "closed"
        /\ subs[s].removals = 1 /\ subs[t].removals = 1
        /\ subs[s].until < Len(emitted)
        /\ subs[t].until < Len(dispatched)
        /\ Received(subs[s]) = Due(subs[s])
        /\ Received(subs[t]) = Due(subs[t])
        /\ Len(Received(subs[s])) > 0
        /\ Len(Received(subs[t])) > 0

\* ------------------------------------------------------- further properties

\* C11: the step that makes a call with no_reply on an open connection puts a
\* message marked as expecting no reply on the wire, leaves the pending-call
\* table as it was and ends the call with the empty result in that same step;
\* afterwards the call has no entry in the table, no reply for it is on the
\* wire and its result does not change.
C11_NoReplyCallReturnsAtOnce ==
    [][\A c \in CallIds :
         /\ (calls[c].state = "new" /\ calls'[c].state # "new"
               /\ calls'[c].no_reply /\ connState = "open") =>
               /\ calls'[c].state = "returned"
               /\ calls'[c].result = "()"
               /\ pending' = pending
               /\ \E m \in inbound' \ inbound :
                     m.serial = calls'[c].serial /\ ~m.expect_reply
         /\ (calls[c].no_reply /\ calls[c].state = "returned") =>
               /\ calls'[c].state = "returned"
               /\ calls'[c].result = "()"
               /\ calls[c].serial \notin DOMAIN pending'
               /\ \A reply \in replies' : reply.reply_serial # calls[c].serial]_vars

\* A no_reply call has returned, and its handler has run and raised, while
\* another call of the connection is still pending.
C11_Witness ==
    \E c, d \in CallIds :
        /\ calls[c].no_reply /\ calls[c].state = "returned"
        /\ calls[c].handled = "raise"
        /\ calls[d].state = "pending"

\* The result a handler that ends normally gives its caller.
NormalResult(call) == IF call.kind = "set" THEN None ELSE HelloWorld

\* C12: the step in which a handler, getter or setter raises leaves the
\* connection open and touches no other call; on an open connection every
\* call message on the wire can still be handled; and a call made after the
\* failed one, whose handler does not raise, returns its normal result when
\* its reply arrives.
C12_FailedCallLeavesServiceIntact ==
    /\ [](connState = "open" =>
            \A m \in inbound :
                IF m.kind = "method"
                THEN ENABLED MethodHandlerStart(m)
                ELSE \A outcome \in PlainOutcomes : ENABLED PropertyAccess(m, outcome))
    /\ [](\A c, d \in CallIds :
            (/\ calls[c].handled = "raise"
             /\ calls[d].handled = "return"
             /\ calls[c].serial < calls[d].serial
             /\ calls[d].reply # NoReply) =>
                /\ calls[d].state = "returned"
                /\ calls[d].result = NormalResult(calls[d]))
    /\ [][\A c \in CallIds :
            (calls[c].handled = "none" /\ calls'[c].handled = "raise") =>
                /\ connState' = connState
                /\ pending' = pending
                /\ \A d \in CallIds \ {c} : calls'[d] = calls[d]
                /\ inbound' \subseteq inbound
                /\ running' \subseteq running]_vars

\* A call failed because its handler raised, the connection is open, and a
\* later call of the same proxy has returned its handler's result.
C12_Witness ==
    \E c, d \in CallIds :
        /\ connState = "open"
        /\ calls[c].handled = "raise"
        /\ calls[c].state = "raised"
        /\ calls[c].exc.cls = CallFailedError
        /\ calls[c].serial < calls[d].serial
        /\ calls[d].kind = "method"
        /\ calls[d].handled = "return"
        /\ calls[d].state = "returned"
        /\ calls[d].result = HelloWorld

\* C13: request_name returns normally exactly when the native request gave
\* reply code 1; code 2 raises the in-queue error, 3 the name-exists error, 4
\* the already-owner error, any other code DbusError itself, and an SdBusError
\* of the native request is raised again as DbusError itself.  The three name
\* errors are different classes, each a subclass of SdBusRequestNameError
\* (itself a DbusError) and none a subclass of another.
C13_RequestNameOutcomes ==
    [][lastEvent'.type = "request_name" =>
         LET native == lastEvent'.native
             outcome == lastEvent'.outcome
             NameErrors == {NameInQueueError, NameExistsError, AlreadyOwner}
         IN  /\ outcome.state = "returned" <=>
                    (native.exc = NoExc /\ native.code = PrimaryOwner)
             /\ outcome.state = "returned" => outcome.exc = NoExc
             /\ native.exc.cls = SdBusError =>
                    outcome.state = "raised" /\ outcome.exc.cls = DbusError
             /\ native.exc = NoExc =>
                    /\ native.code = InQueue => outcome.exc.cls = NameInQueueError
                    /\ native.code = Exists => outcome.exc.cls = NameExistsError
                    /\ native.code = AlreadyOwnerCode => outcome.exc.cls = AlreadyOwner
                    /\ native.code \notin PrimaryOwner..AlreadyOwnerCode =>
                           outcome.exc.cls = DbusError
             /\ \A e \in NameErrors :
                    /\ IsSubclass(e, SdBusRequestNameError)
                    /\ IsSubclass(e, DbusError)
                    /\ \A f \in NameErrors \ {e} : ~IsSubclass(e, f)]_vars

\* On an open connection the bus answered that the name exists, and
\* request_name raised the name-exists error.
C13_Witness ==
    /\ connState = "open"
    /\ lastEvent.type = "request_name"
    /\ lastEvent.native.code = Exists
    /\ lastEvent.outcome.exc.cls = NameExistsError

\* C14: in the context of a running method handler the current message is
\* that handler's message, whatever other handlers run at the same time; a
\* property getter or setter and a signal callback see the message they are
\* called for; when a handler ends, by a return or by an exception, its
\* context has the value from before again and no other context changes; so
\* outside the handlers, in the loop's context and in the context of every
\* handler that has ended, no current message is set.
C14_CurrentMessageScopedToHandler ==
    /\ [](/\ current_message[LoopContext] = Unset
          /\ \A m \in running : current_message[m.serial] = CallMessage(m)
          /\ \A k \in DOMAIN current_message :
                (\A m \in running : m.serial # k) => current_message[k] = Unset)
    /\ [][/\ \A m \in running \ running' :
                /\ current_message'[m.serial] = tokens[m.serial]
                /\ \A k \in DOMAIN current_message \ {m.serial} :
                      current_message'[k] = current_message[k]
          /\ \A c \in CallIds :
                (/\ calls[c].handled = "none" /\ calls'[c].handled # "none"
                 /\ calls[c].kind \in {"get", "set"}) =>
                    lastSeen' = <<"call", calls[c].serial>>
          /\ (dispatched' # dispatched /\ slots # << >>) =>
                lastSeen' = <<"signal", Head(sigInbound).args>>]_vars

\* Two method handlers run at the same time, each with its own message as the
\* current one, a third context holds none, and the last callback the loop
\* ran was a signal callback that saw its signal.
C14_Witness ==
    /\ Cardinality(running) = 2
    /\ \A m \in running : current_message[m.serial] = CallMessage(m)
    /\ current_message[LoopContext] = Unset
    /\ lastSeen = <<"signal", 1>>

\* ------------------------------------------------------- class properties

\* The classes that exist: defined and not yet garbage collected.
Existing == {c \in ClassIds : classes[c].state \in {"live", "dropped"}}

\* The step is a class statement.
IsDefine == lastDefine'.result # "none"

\* C15: no two existing classes have the same interface name; a class
\* statement whose interface name an existing class holds ends with
\* ValueError and changes neither the classes nor the two registries; and a
\* class statement without bases whose valid interface name no existing class
\* holds, also one a collected class had, creates the class and registers it.
C15_OneLiveClassPerInterfaceName ==
    /\ [](\A c, d \in Existing :
            (c # d /\ classes[c].interface_name # None) =>
                classes[c].interface_name # classes[d].interface_name)
    /\ [][IsDefine =>
            LET name == lastDefine'.interface_name
                held == \E c \in Existing : classes[c].interface_name = name
            IN  /\ (name # None /\ held) =>
                      /\ lastDefine'.result = "ValueError"
                      /\ classes' = classes
                      /\ DBUS_INTERFACE_NAME_TO_CLASS' = DBUS_INTERFACE_NAME_TO_CLASS
                      /\ DBUS_CLASS_TO_META' = DBUS_CLASS_TO_META
                /\ (name \in InterfaceNames /\ ~held /\ lastDefine'.bases = {}) =>
                      /\ lastDefine'.result = "created"
                      /\ \E c \in ClassIds :
                            /\ classes[c].state = "none"
                            /\ classes'[c].state = "live"
                            /\ classes'[c].interface_name = name
                            /\ DBUS_INTERFACE_NAME_TO_CLASS'[name] = c]_vars

\* A class was deleted and collected, and a new class has its interface name.
C15_Witness ==
    \E c, d \in ClassIds :
        /\ classes[c].state = "collected"
        /\ classes[d].state = "live"
        /\ classes[c].interface_name \in InterfaceNames
        /\ classes[d].interface_name = classes[c].interface_name
        /\ DBUS_INTERFACE_NAME_TO_CLASS[classes[d].interface_name] = d

\* The interface classes a class statement with these bases reaches, and
\* whether two of them have a member under the same attribute name or the
\* body binds a name one of them has a member under.
Reached(bases) == (UNION {Mro(b) : b \in bases}) \cap DOMAIN DBUS_CLASS_TO_META
Colliding(bases) ==
    \E c, d \in Reached(bases) :
        /\ c # d
        /\ classes[c].namespace \cap classes[d].namespace # {}
Redefining(bases, namespace) ==
    \E c \in Reached(bases) : classes[c].namespace \cap namespace # {}

\* C16 (as stated): a class statement whose body declares a new member and
\* that gives no interface name ends with TypeError and creates no class.
C16_AsStated ==
    [][(IsDefine /\ lastDefine'.namespace # {} /\ lastDefine'.interface_name = None) =>
          /\ lastDefine'.result = "TypeError"
          /\ classes' = classes]_vars

\* C16: a class statement whose body declares a new member and that gives no
\* interface name creates no class and registers nothing; it ends with
\* TypeError, also below an interface class, unless the interface classes it
\* reaches collide with each other or the body binds an attribute name one of
\* them has a member under: then it ends with ValueError.
C16_MemberWithoutInterfaceName ==
    [][(IsDefine /\ lastDefine'.namespace # {} /\ lastDefine'.interface_name = None) =>
          /\ classes' = classes
          /\ DBUS_INTERFACE_NAME_TO_CLASS' = DBUS_INTERFACE_NAME_TO_CLASS
          /\ DBUS_CLASS_TO_META' = DBUS_CLASS_TO_META
          /\ IF \/ Colliding(lastDefine'.bases)
                \/ Redefining(lastDefine'.bases, lastDefine'.namespace)
             THEN lastDefine'.result = "ValueError"
             ELSE lastDefine'.result = "TypeError"]_vars

\* Below an interface class that has an interface name and a member, a class
\* statement declared another member without an interface name: TypeError.
C16_Witness ==
    /\ lastDefine.result = "TypeError"
    /\ lastDefine.interface_name = None
    /\ lastDefine.namespace = {"other"}
    /\ \E c \in lastDefine.bases :
          /\ classes[c].interface_name \in InterfaceNames
          /\ classes[c].namespace = {"example"}

\* C17: a class statement that reaches two different interface classes with
\* a member under the same attribute name ends with ValueError, the collision
\* one unless the statement's interface name is taken, and creates nothing;
\* a statement whose reached interface classes do not collide never ends with
\* the collision error, however many paths lead to one of them.
C17_MemberNameCollision ==
    [][IsDefine =>
          IF Colliding(lastDefine'.bases)
          THEN /\ lastDefine'.result = "ValueError"
               /\ ~NameTaken(lastDefine'.interface_name) =>
                      lastDefine'.message = "collision"
               /\ classes' = classes
          ELSE /\ lastDefine'.message # "collision"
               /\ (lastDefine'.namespace = {} /\ lastDefine'.interface_name = None) =>
                      lastDefine'.result = "created"]_vars

\* Two interface classes with different names each have a member under
\* `example`, and the class statement that combines them ended with the
\* collision error.
C17_Witness ==
    /\ lastDefine.result = "ValueError"
    /\ lastDefine.message = "collision"
    /\ \E c, d \in lastDefine.bases :
          /\ c # d
          /\ classes[c].bases = {} /\ classes[d].bases = {}
          /\ classes[c].interface_name # classes[d].interface_name
          /\ "example" \in classes[c].namespace \cap classes[d].namespace

\* ---------------------------------------------------- property-flag properties

\* The flags of the last add_property() call that are set among these names.
SetAmong(flags, names) == {n \in names : flags[n]}
ExclusiveFlagNames == {"const", "emits_change", "emits_invalidation", "explicit"}

\* C18: add_property() adds the property, with the integer of all flags that
\* are set, when at most one of const, emits_change, emits_invalidation and
\* explicit is set, whatever deprecated, hidden and unprivileged are; with
\* two or more of the four set it ends with AssertionError and the interface
\* has the properties it had before.
C18_PropertyFlagsExclusive ==
    [][lastAdd'.result # "none" =>
          LET flags == lastAdd'.flags
              count == Cardinality(SetAmong(flags, ExclusiveFlagNames))
          IN  IF count <= 1
              THEN /\ lastAdd'.result = "added"
                   /\ Len(interface_properties') = Len(interface_properties) + 1
                   /\ LET added == interface_properties'[Len(interface_properties')]
                      IN  /\ added.name = lastAdd'.name
                          /\ \A n \in PropertyFlagNames :
                                flags[n] <=> BitAnd(added.flags, flag_to_sdbus[n]) # 0
              ELSE /\ lastAdd'.result = "AssertionError"
                   /\ interface_properties' = interface_properties]_vars

\* const and emits_change were both passed to an interface that has one
\* property: assertion error, and the interface has that one property.
C18_Witness ==
    /\ lastAdd.result = "AssertionError"
    /\ lastAdd.flags["const"] /\ lastAdd.flags["emits_change"]
    /\ Len(interface_properties) = 1

\* ------------------------------------------------------ member-name properties

\* C19: the constructor of a member given a name, and the binding of any
\* member, end with the 'Invalid name' assertion error when the name given,
\* or the one derived from the attribute name, is invalid; otherwise a member
\* given a name has that name after it is bound, and a member given none has
\* the name derived from the attribute name.
C19_ExplicitNameKept ==
    [][/\ lastBind'.op = "init" =>
            IF lastBind'.name # NoName /\ ~is_member_name_valid(lastBind'.name[1])
            THEN lastBind'.result = "AssertionError: Invalid name" /\ members' = members
            ELSE lastBind'.result = None
       /\ lastBind'.op = "set_name" =>
            LET m == lastBind'.member
                derived == dbusify_name(lastBind'.attr)
            IN  IF members[m].given # NoName
                THEN /\ lastBind'.result = None
                     /\ members'[m].name = members[m].given
                ELSE IF is_member_name_valid(derived)
                     THEN /\ lastBind'.result = None
                          /\ members'[m].name = Name(derived)
                     ELSE /\ lastBind'.result = "AssertionError: Invalid name"
                          /\ members' = members]_vars

\* The member given the name GetAll was bound to the attribute
\* _properties_get_all of a class without a _name attribute, and its name
\* is PropertiesGetAll.
C19_Witness ==
    \E m \in DOMAIN members :
        /\ members[m].given = Name(GetAll)
        /\ members[m].attr = properties_get_all
        /\ members[m].name = Name(dbusify_name(properties_get_all))
        /\ members[m].name # Name(GetAll)
        /\ lastBind.op = "set_name" /\ lastBind.member = m
        /\ ~lastBind.owner_has_name

\* ------------------------------------------------------ inspection properties

\* The bus an inspect_dbus_path() call asks about.
AskedBus(bus) == IF bus = None THEN get_default_bus ELSE bus

\* C20: inspect_dbus_path(obj, bus) returns the object's path when obj is a
\* proxy attached to bus or a local object that export_to_dbus() has exported
\* on bus, and only then; it ends with LookupError for a local object that
\* was never exported and for a proxy or local object of another bus, and
\* with TypeError for an object that is no D-Bus object.
C20_InspectDbusPath ==
    [][lastInspect'.result # "none" =>
          LET obj == objects[lastInspect'.obj]
              bus == AskedBus(lastInspect'.bus)
              has_path ==
                  \/ obj.kind = "proxy" /\ obj.attached_bus = bus
                  \/ /\ obj.kind = "local"
                     /\ obj.served \in {"exported", "closed"}
                     /\ obj.attached_bus = bus
          IN  /\ has_path <=> lastInspect'.result = "returned"
              /\ has_path => lastInspect'.value = obj.object_path
              /\ obj.kind = "other" <=> lastInspect'.result = "TypeError"
              /\ (obj.kind # "other" /\ ~has_path) =>
                    lastInspect'.result = "LookupError"]_vars

\* export_to_dbus() raised on a local object, which so was never exported,
\* and inspect_dbus_path() then returned the path of the failed call.
C20_Witness ==
    /\ lastInspect.result = "returned"
    /\ objects[lastInspect.obj].kind = "local"
    /\ objects[lastInspect.obj].served = "failed"
    /\ lastInspect.value = TEST_PATH

\* ------------------------------------------------------------ codec properties

Returned == lastHandled.ran /\ lastHandled.callback.type = "return"
Building == Returned /\ lastHandled.expect_reply

\* C22: for a tuple the first append_data call gets the elements as separate
\* values, and there is a second call, with the whole tuple as one value,
\* exactly when the first raised TypeError; a result that is neither a tuple
\* nor None is appended in one call as one value; for None nothing is
\* appended.  The body of a method return is what the last call appended.
C22_TupleThenSingleStruct ==
    Building =>
        LET data == lastHandled.callback.reply_data
            attempts == lastHandled.attempts
            signature == lastHandled.result_signature
        IN  /\ data[1] = "tuple" =>
                  /\ Len(attempts) \in {1, 2}
                  /\ attempts[1].args = Tail(data)
                  /\ Len(attempts) = 2 <=> attempts[1].raised = TypeError
                  /\ Len(attempts) = 2 => attempts[2].args = <<data>>
            /\ (data[1] # "tuple" /\ data # PyNone) =>
                  /\ Len(attempts) = 1
                  /\ attempts[1].args = <<data>>
            /\ data = PyNone => attempts = << >>
            /\ \A i \in DOMAIN lastHandled.sent :
                  lastHandled.sent[i].type = "method_return" =>
                      lastHandled.sent[i].body =
                          IF attempts = << >> THEN << >>
                          ELSE attempts[Len(attempts)].args

\* The callback returned ("a", 1) for the result signature "(su)": the
\* first call raised, the second appended the tuple as one struct, and the
\* method return carries it.
C22_Witness ==
    /\ Building
    /\ lastHandled.result_signature = <<<<"r", <<"s">>, <<"u">>>>>>
    /\ lastHandled.callback.reply_data = PyTuple(<<PyStr, PyInt>>)
    /\ Len(lastHandled.attempts) = 2
    /\ lastHandled.sent # << >>
    /\ lastHandled.sent[1].body = <<PyTuple(<<PyStr, PyInt>>)>>

\* The callback returned and every append_data call needed for its result
\* went through.
ReplyBuilt ==
    /\ Returned
    /\ LET attempts == BuildReply(lastHandled.result_signature,
                                  lastHandled.callback.reply_data)
       IN  attempts = << >> \/ attempts[Len(attempts)].raised = None

\* The callback was cancelled: what it raised is no Exception.
Cancelled ==
    /\ lastHandled.ran
    /\ lastHandled.callback.type = "raise"
    /\ ~IsException(lastHandled.callback.exc)

SentOne(type) ==
    /\ Len(lastHandled.sent) = 1
    /\ lastHandled.sent[1].type = type

\* C23 as stated: a call that expects a reply gets exactly one message, a
\* method return when callback and building succeed and an error reply
\* otherwise; a call that expects none gets no message.
C23_AsStated ==
    lastHandled.ran =>
        IF lastHandled.expect_reply
        THEN IF ReplyBuilt THEN SentOne("method_return") ELSE SentOne("error")
        ELSE lastHandled.sent = << >>

\* C23: a call that expects a reply gets exactly one message, a method
\* return when callback and building succeed and an error reply when the
\* callback or the building raises an Exception; when the callback ends
\* with a BaseException that is no Exception (a cancellation) nothing is
\* sent and the exception leaves the handler.  A call that expects no reply
\* gets no message, whether the callback succeeds or raises.
C23_OneReplyUnlessCancelled ==
    lastHandled.ran =>
        IF ~lastHandled.expect_reply THEN lastHandled.sent = << >>
        ELSE IF Cancelled
             THEN /\ lastHandled.sent = << >>
                  /\ lastHandled.propagated = CancelledError
             ELSE /\ lastHandled.propagated = None
                  /\ IF ReplyBuilt THEN SentOne("method_return")
                     ELSE SentOne("error")

\* A call that expects a reply whose callback was cancelled, after which
\* nothing was sent.
C23_Witness ==
    /\ Cancelled
    /\ lastHandled.expect_reply
    /\ lastHandled.sent = << >>

\* ------------------------------------------------------- handle properties

\* C24: a close() that returns has closed the items it found, from the last
\* registered to the first, and leaves the handle empty; over the life of
\* the handle no item is closed twice, so a close(), stop(), __exit__ or
\* __aexit__ that follows a returned close() closes nothing.
C24_CloseReverseOnce ==
    /\ \A i, j \in DOMAIN closedItems :
           closedItems[i] = closedItems[j] => i = j
    /\ \A i \in DOMAIN handle_items :
           \A j \in DOMAIN closedItems : handle_items[i].id # closedItems[j]
    /\ lastClose.by # None =>
           /\ lastClose.before = << >> => lastClose.closed = << >>
           /\ lastClose.returned =>
                  /\ lastClose.after = << >>
                  /\ lastClose.closed =
                         Reverse([i \in DOMAIN lastClose.before |->
                                      lastClose.before[i].id])

\* Two items were registered and closed, the second first, and the context
\* manager was left afterwards: it found the handle empty.
C24_Witness ==
    /\ closedItems = <<2, 1>>
    /\ lastClose.by = "__aexit__"
    /\ lastClose.before = << >>
    /\ lastClose.returned

\* --------------------------------------------------- middleware properties

\* The middlewares entered during the last call, in order.
Entered ==
    LET enters == SelectSeq(lastCall.trace, LAMBDA e : e.event = "enter")
    IN  [i \in DOMAIN enters |-> enters[i].middleware]

\* The positions of the trace at which the wrapped method ran.
FuncRuns == {i \in DOMAIN lastCall.trace : lastCall.trace[i].event = "func"}

\* Every middleware of the chain of the last call calls its next step once.
EveryNextOnce ==
    \A i \in DOMAIN lastCall.chain : lastCall.next_calls[lastCall.chain[i]] = 1

\* C25: when every middleware calls the next step exactly once, the
\* middlewares are entered from the last registered to the first, the
\* wrapped method runs exactly once, after all of them were entered, and
\* the registered list is what it was before the call.
C25_ReverseOrderOnceListKept ==
    (lastCall.direction # None /\ EveryNextOnce) =>
        /\ Entered = Reverse(lastCall.chain)
        /\ Cardinality(FuncRuns) = 1
        /\ \A i \in FuncRuns :
               \A j \in DOMAIN lastCall.trace :
                   lastCall.trace[j].event = "enter" => j < i
        /\ \A i \in DOMAIN lastCall.chain :
               /\ i <= Len(registered_middlewares[lastCall.direction])
               /\ registered_middlewares[lastCall.direction][i] = lastCall.chain[i]

\* A call from the bus through three middlewares, each calling the next
\* step once, after which the three are still registered.
C25_Witness ==
    /\ lastCall.direction = "from_dbus"
    /\ Len(lastCall.chain) = MaxMiddlewares
    /\ EveryNextOnce
    /\ Len(lastCall.trace) = 2 * MaxMiddlewares + 1
    /\ registered_middlewares["from_dbus"] = lastCall.chain

\* The chain a call of the next step is to run in full: the inner
\* middlewares from the last to the first, each running what is inside it
\* once per call of its next step, and innermost the wrapped method.
RECURSIVE FullChain(_, _)
RECURSIVE Repeated(_, _)
Repeated(trace, times) ==
    IF times = 0 THEN << >> ELSE trace \o Repeated(trace, times - 1)

FullChain(chain, next_calls) ==
    IF chain = << >> THEN <<Func>>
    ELSE LET middleware == chain[Len(chain)]
             inner == FullChain(SubSeq(chain, 1, Len(chain) - 1), next_calls)
         IN  <<Enter(middleware)>> \o Repeated(inner, next_calls[middleware])
                 \o <<Leave(middleware)>>

\* Some middleware of the chain of the last call calls its next step more
\* than once.
Retrying ==
    /\ lastCall.direction # None
    /\ \E i \in DOMAIN lastCall.chain : lastCall.next_calls[lastCall.chain[i]] > 1

\* C26: when a middleware calls the next step more than once within one
\* call, every one of these invocations runs the inner middlewares and the
\* wrapped method, the same chain each time.
C26_RetryRunsFullChain ==
    Retrying => lastCall.trace = FullChain(lastCall.chain, lastCall.next_calls)

\* The outer of two middlewares called the next step twice: the first
\* invocation ran the inner middleware and the method, the second the
\* method alone.
C26_Witness ==
    /\ lastCall.chain = <<1, 2>>
    /\ lastCall.next_calls[2] = 2
    /\ lastCall.next_calls[1] = 1
    /\ lastCall.trace = <<Enter(2), Enter(1), Func, Leave(1), Func, Leave(2)>>

\* ------------------------------------------------ local signal properties

\* C27: what a catch() subscriber finds in its queue was emitted on the
\* object whose signal it iterates; an emit() on another instance of the
\* class gives it nothing.
C27_EmitStaysOnObject ==
    \A s \in CatcherIds :
        \A i \in DOMAIN catchers[s].queue :
            catchers[s].queue[i].emitted_on = catchers[s].object

\* A subscriber of the second object has in its queue what was emitted on
\* the first.
C27_Witness ==
    \E s \in CatcherIds :
        /\ catchers[s].object = 2
        /\ catchers[s].state = "waiting"
        /\ catchers[s].queue = <<[args |-> "a", emitted_on |-> 1]>>

\* ---------------------------------------------- local property properties

\* What the last set announced.
Announced == SelectSeq(lastSet.events, LAMBDA e : e.event = "emit")

\* The last set ran the setter and then announced the new value, once.
SetterThenOneEmit ==
    lastSet.events =
        <<SetterRan(lastSet.value),
          PropertiesChanged(InterfaceName, PropertyName, lastSet.value)>>

\* C28 as stated, for an object that still exists: the setter runs and then
\* properties_changed is emitted once with interface name, property name and
\* the new value; without a setter set() raises RuntimeError and nothing is
\* emitted; when the setter raises nothing is emitted.
C28_AsStated ==
    (lastSet.via # None /\ lastSet.alive) =>
        IF ~lastSet.has_setter
        THEN lastSet.raised = RuntimeError /\ lastSet.events = << >>
        ELSE IF lastSet.setter_raises THEN Announced = << >>
             ELSE SetterThenOneEmit

\* C28: on an object that has a properties_changed signal the setter runs
\* and then properties_changed is emitted once with interface name,
\* property name and the new value; on an object without that attribute
\* the setter runs and nothing is emitted.  Without a setter, or when the
\* object no longer exists, the set raises RuntimeError, no setter runs and
\* nothing is emitted; when the setter raises nothing is emitted.
C28_EmitsOnceIfSignalExists ==
    lastSet.via # None =>
        IF ~lastSet.has_setter \/ ~lastSet.alive
        THEN lastSet.raised = RuntimeError /\ lastSet.events = << >>
        ELSE IF lastSet.setter_raises
             THEN /\ Announced = << >>
                  /\ lastSet.raised # None
             ELSE /\ lastSet.raised = None
                  /\ stored = lastSet.value
                  /\ IF lastSet.has_properties_changed THEN SetterThenOneEmit
                     ELSE lastSet.events = <<SetterRan(lastSet.value)>>

\* A set on an object without properties_changed: the setter stored the
\* value and nothing was announced.
C28_Witness ==
    /\ lastSet.via = "set"
    /\ lastSet.alive /\ lastSet.has_setter /\ ~lastSet.setter_raises
    /\ ~lastSet.has_properties_changed
    /\ stored = lastSet.value
    /\ Announced = << >>

\* ------------------------------------------------------ export properties

\* The last operation was an export of an object, directly or through the
\* manager.
LastWasExport == lastExport.op \in {"export_to_dbus", "export_with_manager"}

\* The object of the last export was a proxy, or had a bus already.
Refused ==
    /\ LastWasExport
    /\ \/ lastExport.before.kind = "proxy"
       \/ lastExport.before.attached_bus # None

\* C29: the interfaces of an object are exported at most once.  An export
\* of a proxy, or of a local object that has a bus already, raises
\* RuntimeError, exports nothing and leaves the meta, with its bus and
\* path, as it was; that is so too when the handle of the first export was
\* closed before.
C29_ExportedAtMostOnce ==
    /\ \A o \in ObjectIds : export_count[o] <= 1
    /\ Refused =>
          /\ lastExport.raised = RuntimeError
          /\ dbus_metas[lastExport.obj] = lastExport.before

\* An object was exported, its handle closed, and a second export to the
\* other path was refused: the path is still the first one.
C29_Witness ==
    /\ Refused
    /\ lastExport.op = "export_to_dbus"
    /\ lastExport.obj = "a"
    /\ lastExport.before.served = "closed"
    /\ lastExport.raised = RuntimeError
    /\ export_count["a"] = 1
    /\ dbus_metas["a"].object_path = TEST_PATH

\* ----------------------------------------------------- manager properties

\* The objects in the table of managed objects.
Managed == {o \in ObjectIds : managed_object_to_path[o] # None}

\* The objects that export_with_manager exported and whose handle was not
\* closed.
OpenManaged ==
    {o \in ObjectIds : /\ export_handles[o].via_manager
                       /\ export_handles[o].state = "open"}

\* How often the removal of a path was announced.
RemovalsOf(path) ==
    Cardinality({i \in DOMAIN announced : announced[i] = ObjectRemoved(path)})

\* export_with_manager on a manager that was never exported raises
\* RuntimeError and exports nothing.
NeverExportedManagerRefuses ==
    (lastExport.op = "export_with_manager" /\ export_count[ManagerId] = 0) =>
        /\ lastExport.raised = RuntimeError
        /\ dbus_metas[lastExport.obj] = lastExport.before
        /\ Managed = {}
        /\ announced = << >>

RemovedByHand == OpenManaged \ Managed

====
